---- MODULE Spec2Model ----
(***************************************************************************)
(* The ConsistencyCheck workload of                                        *)
(* fdbserver/workloads/ConsistencyCheck.actor.cpp, one client.             *)
(*                                                                         *)
(* The client is a chain of Flow actors: _setup, then _start, which loops  *)
(* over runCheck; runCheck reads the configuration, runs the quiescent     *)
(* checks, then getKeyServers, getKeyLocations and checkDataConsistency.   *)
(* pc is the place where the running actor waits.  Every action is the     *)
(* code that runs between two waits.  What the cluster answers (replies,   *)
(* absences, thrown errors) is chosen by the actions' \E.                  *)
(***************************************************************************)
EXTENDS Integers, Sequences, FiniteSets, TLC

----------------------------------------------------------------------------
(* Bounds of the model *)

\* number of clients of the workload (clientCount)
ClientCount == 2
\* allKeys.end; the keys are 0 .. MaxKey
MaxKey == 8
\* configuration.storageTeamSize, and the size of a full team
TeamSize == 3
\* runCheck is started while repetitions <= MaxRepetitions
MaxRepetitions == 1
\* rows per getKeyValues reply of checkDataConsistency (req.limit)
DataPageLimit == 4
\* rows per getKeyValues reply of getKeyLocations (MOVE_KEYS_KRM_LIMIT)
KrmLimit == 2
\* the most master proxies of a roster
MaxProxies == 2
\* the shard loop alone is run for shardSampleFactor 1 .. MaxShardSampleFactor
MaxShardSampleFactor == 2
\* and over 1 .. MaxShards shards
MaxShards == 5

----------------------------------------------------------------------------
(* Keys *)

allKeysBegin == 0
allKeysEnd == MaxKey
\* keyServersPrefix: a key k of the key-servers map is stored at prefix + k
keyServersPrefix == 100
withPrefix(k) == keyServersPrefix + k
removePrefix(k) == k - keyServersPrefix
keyServersKeysBegin == withPrefix(allKeysBegin)
\* keyServersKeys.end is the prefix with its last byte incremented: it is
\* greater than every prefixed key
keyServersKeysEnd == withPrefix(allKeysEnd) + 1
Min(a, b) == IF a < b THEN a ELSE b
Max(a, b) == IF a < b THEN b ELSE a
\* a uint32_t is kept as its two 16-bit halves [hi, lo]
Half == 2 ^ 16
uint32(n) == [hi |-> (n \div Half) % Half, lo |-> n % Half]
\* a + n of a uint32_t a and a small n, modulo 2^32
Plus32(a, n) == [hi |-> (a.hi + (a.lo + n) \div Half) % Half, lo |-> (a.lo + n) % Half]
\* a % m of a uint32_t a
Mod32(a, m) == ((a.hi % m) * (Half % m) + a.lo) % m

----------------------------------------------------------------------------
(* The database the client reads *)

\* the shards of the database: [0, 1), [1, 2) and [2, allKeys.end)
shardBegins == <<0, 1, 2>>
FullTeam == [k \in 1..TeamSize |-> k]
DestTeam == [k \in 1..TeamSize |-> k + 1]
ShortTeam == [k \in 1..(TeamSize - 1) |-> k]
storageTeamSize == TeamSize

\* the value of a row of the key-servers map: the source and destination teams
Team(src, dest) == [src |-> src, dest |-> dest]
\* the second shard is being moved; the third has a full team or a short one
TeamMaps ==
    { <<Team(FullTeam, <<>>), Team(FullTeam, DestTeam), Team(FullTeam, <<>>)>>,
      <<Team(FullTeam, <<>>), Team(FullTeam, DestTeam), Team(ShortTeam, <<>>)>> }

\* the rows of the key-servers map: one per shard, at the prefixed begin of the
\* shard, and the row of allKeys.end
KeyServersRows(teams) ==
    [k \in 1..Len(shardBegins) |-> [key |-> withPrefix(shardBegins[k]), value |-> teams[k]]]
        \o <<[key |-> withPrefix(allKeysEnd), value |-> Team(<<>>, <<>>)]>>
\* the rows of the shards themselves: every key below allKeys.end has a value
DataRows == [k \in 1..MaxKey |-> [key |-> k - 1, value |-> 0]]

\* the shards that hold the key-servers map, as the master proxies know them
keyServersShards ==
    <<[first |-> [begin |-> keyServersKeysBegin, end |-> withPrefix(2)], second |-> FullTeam],
      [first |-> [begin |-> withPrefix(2), end |-> keyServersKeysEnd], second |-> FullTeam]>>

Take(seq, n) == SubSeq(seq, 1, Min(n, Len(seq)))

\* getKeyServersLocations of a proxy that is reachable
GetKeyServerLocationsReply(b, e, limit) ==
    Take(SelectSeq(keyServersShards, LAMBDA sh : sh.first.end > b /\ sh.first.begin < e), limit)

\* getKeyValues of a storage server that holds rows: the rows of [b, e), limit at
\* most, and more when the limit was reached
GetKeyValuesReply(rows, b, e, limit) ==
    LET inRange == SelectSeq(rows, LAMBDA r : r.key >= b /\ r.key < e)
    IN [present |-> TRUE, data |-> Take(inRange, limit), more |-> Len(inRange) >= limit]

Absent == [present |-> FALSE, data |-> <<>>, more |-> FALSE]
\* the reply of replica j: none, the rows of the database, or, from the second
\* replica of a team alone, another answer: the rows but the last ("badData"),
\* or the rows with the other more flag ("badMore")
ReplyKinds(j) ==
    IF j = 2 THEN {"absent", "good", "badData", "badMore"} ELSE {"absent", "good"}
ReplyOf(kind, good) ==
    CASE kind = "absent" -> Absent
      [] kind = "good" -> good
      [] kind = "badData" -> [good EXCEPT !.data = SubSeq(@, 1, Len(@) - 1)]
      [] kind = "badMore" -> [good EXCEPT !.more = ~@]

\* isKeyValueInSample: the byte sample of a row.  Every row has size 1; the
\* row of key 1 is not in the sample; the sampled size of a row is 2 or 1 with
\* its key, unless the row holds a value v > 0, which stands for a row that is
\* sampled with the sampled size v
isKeyValueInSample(kv) ==
    [size |-> 1,
     sampledSize |-> IF kv.value > 0 THEN kv.value ELSE IF kv.key % 2 = 0 THEN 2 ELSE 1,
     inSample |-> kv.key # 1]

\* the sampled bytes of the rows of [b, e): what a storage server that holds
\* them reports as its estimate (waitMetrics)
RECURSIVE SampledBytesOf(_)
SampledBytesOf(rows) ==
    IF Len(rows) = 0 THEN 0
    ELSE (IF isKeyValueInSample(rows[1]).inSample
          THEN isKeyValueInSample(rows[1]).sampledSize ELSE 0) + SampledBytesOf(Tail(rows))
StorageMetricsBytes(b, e) ==
    SampledBytesOf(SelectSeq(DataRows, LAMBDA r : r.key >= b /\ r.key < e))

\* getShardSizeBounds(range, getMaxShardSize(dbSize)): the larger the database,
\* the larger its shards may be
getShardSizeBounds(size) ==
    [min |-> 1, max |-> IF size = 0 THEN 6 ELSE 12, permittedError |-> 0]

\* the accumulators of a shard of checkDataConsistency
NoAcc == [shardKeys |-> 0, shardBytes |-> 0, sampledBytes |-> 0, splitBytes |-> 0,
          firstKeySampledBytes |-> 0, sampledKeys |-> 0, shardVariance |-> 0,
          canSplit |-> FALSE]

----------------------------------------------------------------------------
(* Errors *)

\* the version errors alone
RetryErrorsOfVersion == {"transaction_too_old", "future_version"}
\* the errors the catch of runCheck takes for transient
RetryErrors == {"transaction_too_old", "future_version", "wrong_shard_server",
                "all_alternatives_failed", "server_request_queue_full"}
VersionErrors == {"transaction_too_old", "future_version"}
Errors == RetryErrors \cup {"attribute_not_found", "operation_failed", "internal_error"}
\* what a wait can throw (an ASSERT throws internal_error, a wait does not)
Thrown == Errors \ {"internal_error"}

----------------------------------------------------------------------------
VARIABLES
    \* options of the workload, set by the constructor
    clientId, clientCount, distributed, indefinite, shardSampleFactor, shuffleShards,
    sharedRandomNumber, rateLimit,
    performQuiescentChecks, success, repetitions,
    \* where the client is, and the error on its way to the catch of runCheck
    pc, err,
    \* the events of the last step (TraceEvent), in order
    emitted,
    \* how many times runCheck was started
    runs,
    \* the database: the teams of the shards
    teamMap,
    \* runCheck
    hasUndesirableServers,
    \* getKeyServers
    keyServers, limitKeyServers, proxyInfo, keyServerLocationFutures,
    keyServersInsertedForThisIteration,
    \* getKeyLocations and checkDataConsistency
    keyLocations, beginKey, i, begin, keyValueFutures, arrived,
    \* checkDataConsistency
    dbSize, storageServerInterfaces, estimatedBytes, acc,
    \* the shard loop of checkDataConsistency run alone: per client, the indices
    \* and shards of the iterations of the loop, and the shards whose data were
    \* compared
    examined, diffed,
    \* the clients of the run, run together: the state of every client that is
    \* not at a step (a client has its own workload object)
    suspended

optVars == <<clientId, clientCount, distributed, indefinite, shardSampleFactor, shuffleShards,
            sharedRandomNumber, rateLimit, teamMap, suspended>>
loopVars == <<examined, diffed>>
ksVars == <<keyServers, limitKeyServers, proxyInfo, keyServerLocationFutures,
            keyServersInsertedForThisIteration>>
klVars == <<keyLocations, beginKey>>
pageVars == <<i, begin, keyValueFutures, arrived>>
dcVars == <<dbSize, storageServerInterfaces, estimatedBytes, acc>>
vars == <<optVars, loopVars, performQuiescentChecks, success, repetitions, pc, err, emitted,
          runs, hasUndesirableServers, ksVars, klVars, pageVars, dcVars>>

firstClient == clientId = 0

----------------------------------------------------------------------------
(* Events and failures.  A sink st is [success, events]: an action starts   *)
(* from Sink and ends with success' and emitted' taken from the sink the    *)
(* code left.                                                               *)

Sink == [success |-> success, events |-> <<>>]

TraceEvent(st, name) ==
    [st EXCEPT !.events = Append(@, [name |-> name, reason |-> ""])]

\* a testFailure that emits TestFailure and forgets to clear success
testFailureLeavesSuccess(st, message) ==
    [success |-> st.success,
     events |-> Append(st.events, [name |-> "TestFailure", reason |-> message])]

\* testFailure sets success to false and emits TestFailure with its reason
testFailure(st, message) ==
    [success |-> FALSE,
     events |-> Append(st.events, [name |-> "TestFailure", reason |-> message])]

Failures(evs) == SelectSeq(evs, LAMBDA e : e.name = "TestFailure")
Names(evs) == {evs[k].name : k \in 1..Len(evs)}
Reasons(evs) == {evs[k].reason : k \in 1..Len(evs)} \ {""}

Leave(st) ==
    /\ success' = st.success
    /\ emitted' = st.events

----------------------------------------------------------------------------
(* _setup *)

\* ConsistencyCheckWorkload(): the options are read, success is true
Init ==
    /\ clientCount = ClientCount
    /\ suspended = <<>>
    /\ clientId \in 0..(clientCount - 1)
    /\ distributed \in BOOLEAN
    /\ indefinite \in BOOLEAN
    /\ shardSampleFactor = 1
    /\ shuffleShards = FALSE
    /\ sharedRandomNumber = uint32(0)
    /\ rateLimit = 0
    /\ examined = <<>>
    /\ diffed = <<>>
    /\ performQuiescentChecks \in BOOLEAN
    /\ teamMap \in TeamMaps
    /\ success = TRUE
    /\ repetitions = 0
    /\ pc = "setup"
    /\ err = "none"
    /\ emitted = <<>>
    /\ runs = 0
    /\ hasUndesirableServers = FALSE
    /\ keyServers = <<>>
    /\ limitKeyServers = 0
    /\ proxyInfo = 0
    /\ keyServerLocationFutures = <<>>
    /\ keyServersInsertedForThisIteration = FALSE
    /\ keyLocations = <<>>
    /\ beginKey = 0
    /\ i = 0
    /\ begin = 0
    /\ keyValueFutures = <<>>
    /\ arrived = {}
    /\ dbSize = 0
    /\ storageServerInterfaces = <<>>
    /\ estimatedBytes = <<>>
    /\ acc = NoAcc

\* the locals of the component actors are gone once runCheck is left
LocalsGone ==
    /\ hasUndesirableServers' = FALSE
    /\ keyServers' = <<>>
    /\ limitKeyServers' = 0
    /\ proxyInfo' = 0
    /\ keyServerLocationFutures' = <<>>
    /\ keyServersInsertedForThisIteration' = FALSE
    /\ keyLocations' = <<>>
    /\ beginKey' = 0
    /\ i' = 0
    /\ begin' = 0
    /\ keyValueFutures' = <<>>
    /\ arrived' = {}
    /\ dbSize' = 0
    /\ storageServerInterfaces' = <<>>
    /\ estimatedBytes' = <<>>
    /\ acc' = NoAcc

locals == <<hasUndesirableServers, ksVars, klVars, pageVars, dcVars>>

\* _setup up to its wait: the quiescence driver is called by the first client
\* of a quiescent run
SetupBegin ==
    /\ pc = "setup"
    /\ pc' = IF firstClient /\ performQuiescentChecks THEN "quietDatabase" ELSE "ready"
    /\ emitted' = <<>>
    /\ UNCHANGED <<optVars, loopVars, performQuiescentChecks, success, repetitions, err, runs, locals>>

\* quietDatabase returned in time
QuietDatabaseDone ==
    /\ pc = "quietDatabase"
    /\ pc' = "ready"
    /\ emitted' = <<>>
    /\ UNCHANGED <<optVars, loopVars, performQuiescentChecks, success, repetitions, err, runs, locals>>

\* a catch of _setup that records the failure and stays quiescent
QuietDatabaseErrorStaysQuiescent ==
    /\ pc = "quietDatabase"
    /\ LET st == testFailure(TraceEvent(Sink, "ConsistencyCheck_QuietDatabaseError"),
                             "Unable to achieve a quiet database")
       IN Leave(st)
    /\ pc' = "ready"
    /\ UNCHANGED <<optVars, loopVars, performQuiescentChecks, repetitions, err, runs, locals>>

\* quietDatabase threw, or timeoutError threw timed_out: the catch of _setup
QuietDatabaseError ==
    /\ pc = "quietDatabase"
    /\ LET st == testFailure(TraceEvent(Sink, "ConsistencyCheck_QuietDatabaseError"),
                             "Unable to achieve a quiet database")
       IN Leave(st)
    /\ performQuiescentChecks' = FALSE
    /\ pc' = "ready"
    /\ UNCHANGED <<optVars, loopVars, repetitions, err, runs, locals>>

----------------------------------------------------------------------------
(* _start and runCheck *)

\* _start: the loop calls runCheck
StartRunCheck ==
    /\ pc = "ready"
    /\ repetitions <= MaxRepetitions
    /\ runs' = runs + 1
    /\ pc' = IF firstClient \/ distributed THEN "readConfig" ELSE "finished"
    /\ emitted' = <<>>
    /\ UNCHANGED <<optVars, loopVars, performQuiescentChecks, success, repetitions, err, locals>>

\* tr.getRange(configKeys, 1000) returned res; tooMany is res.size() == 1000
ReadConfiguration(tooMany) ==
    /\ pc = "readConfig"
    /\ LET st == IF tooMany
                 THEN testFailure(TraceEvent(Sink, "ConsistencyCheck_TooManyConfigOptions"),
                                  "Read too many configuration options")
                 ELSE Sink
       IN Leave(st)
    /\ pc' = IF firstClient /\ performQuiescentChecks THEN "checkForUndesirableServers"
                                                      ELSE "getKeyServers"
    /\ UNCHANGED <<optVars, loopVars, performQuiescentChecks, repetitions, err, runs, locals>>

\* the catch of runCheck
CatchError ==
    /\ pc = "catch"
    /\ LET st == IF err \in RetryErrors
                 THEN TraceEvent(Sink, "ConsistencyCheck_Retry")
                 ELSE testFailure(Sink, "Error")
       IN Leave(st)
    /\ err' = "none"
    /\ pc' = "finished"
    /\ UNCHANGED <<optVars, loopVars, performQuiescentChecks, repetitions, runs, locals>>

\* an end of runCheck after which _start loops without its delay
FinishedCheckWithoutDelay ==
    /\ pc = "finished"
    /\ emitted' = TraceEvent(Sink, "ConsistencyCheck_FinishedCheck").events
    /\ IF ~indefinite
       THEN /\ pc' = "done"
            /\ UNCHANGED repetitions
       ELSE /\ repetitions' = repetitions + 1
            /\ pc' = "ready"
    /\ UNCHANGED <<optVars, loopVars, performQuiescentChecks, success, err, runs, locals>>

\* the end of runCheck, and _start after it
FinishedCheck ==
    /\ pc = "finished"
    /\ emitted' = TraceEvent(Sink, "ConsistencyCheck_FinishedCheck").events
    /\ IF ~indefinite
       THEN /\ pc' = "done"
            /\ UNCHANGED repetitions
       ELSE /\ repetitions' = repetitions + 1
            /\ pc' = "delay"
    /\ UNCHANGED <<optVars, loopVars, performQuiescentChecks, success, err, runs, locals>>

\* delay(5.0) of _start is over
DelayElapsed ==
    /\ pc = "delay"
    /\ pc' = "ready"
    /\ emitted' = <<>>
    /\ UNCHANGED <<optVars, loopVars, performQuiescentChecks, success, repetitions, err, runs, locals>>

----------------------------------------------------------------------------
(* The quiescent checks of runCheck *)

\* the quiescent checks are run under simulation: checkWorkerList reads
\* g_simulator without asking g_network->isSimulated()
isSimulated == TRUE

\* what getStorageServers and getKeyValueStoreType may answer: two servers,
\* each unreachable ("absent"), of the configured store type ("ok") or of
\* another ("wrong"), at the same address or not
StorageServerLists ==
    { <<[storeType |-> t1, address |-> 1], [storeType |-> t2, address |-> a2]>> :
        t1 \in {"absent", "ok", "wrong"}, t2 \in {"absent", "ok", "wrong"}, a2 \in 1..2 }

RECURSIVE UndesirableFrom(_, _, _)
UndesirableFrom(st, storageServers, k) ==
    IF k > Len(storageServers)
    THEN [st |-> st, result |-> FALSE]
    ELSE LET s == storageServers[k]
             st1 == IF s.storeType = "absent"
                    THEN testFailure(TraceEvent(st, "ConsistencyCheck_ServerUnavailable"),
                                     "Storage server unavailable")
                    ELSE st
         IN IF s.storeType = "wrong"
            THEN [st |-> testFailure(TraceEvent(st, "ConsistencyCheck_WrongKeyValueStoreType"),
                                     "Storage server has wrong key-value store type"),
                  result |-> TRUE]
            ELSE IF \E j \in (k + 1)..Len(storageServers) :
                        storageServers[j].address = s.address
            THEN [st |-> testFailure(TraceEvent(st1, "ConsistencyCheck_UndesirableServer"),
                                     "Multiple storage servers have the same address"),
                  result |-> TRUE]
            ELSE UndesirableFrom(st1, storageServers, k + 1)

checkForUndesirableServers(st, storageServers) == UndesirableFrom(st, storageServers, 1)

\* the workers of checkForStorage: class and exclusion of the workers at
\* addresses 1 and 2
WorkerLists ==
    { <<[address |-> 1, class |-> c1, excluded |-> x1],
        [address |-> 2, class |-> c2, excluded |-> x2]>> :
        c1 \in {"StorageClass", "UnsetClass", "TransactionClass"},
        c2 \in {"StorageClass", "TransactionClass"},
        x1 \in BOOLEAN, x2 \in BOOLEAN }

RECURSIVE StorageFrom(_, _, _, _)
StorageFrom(st, workers, ssAddresses, k) ==
    IF k > Len(workers)
    THEN [st |-> st, result |-> TRUE]
    ELSE IF /\ ~workers[k].excluded
            /\ workers[k].class \in {"StorageClass", "UnsetClass"}
            /\ workers[k].address \notin ssAddresses
         THEN [st |-> testFailure(TraceEvent(st, "ConsistencyCheck_NoStorage"),
                                  "No storage server on worker"),
               result |-> FALSE]
         ELSE StorageFrom(st, workers, ssAddresses, k + 1)

checkForStorage(st, workers, ssAddresses) == StorageFrom(st, workers, ssAddresses, 1)

\* checkForExtraDataStores: storage server 10 is registered at address 1 and
\* the present log 11 at address 2
statefulProcesses == [a \in 1..2 |-> IF a = 1 THEN {10} ELSE {11}]
DiskStoreReplies ==
    { [error |-> TRUE, stores |-> <<>>] } \cup
    { [error |-> FALSE, stores |-> ids] : ids \in {<<>>, <<10>>, <<11>>, <<10, 11>>} }

RECURSIVE ExtraStoresOfAnyAddress(_, _, _, _)
\* a loop over the stores of a worker that accepts an id registered at any address
ExtraStoresOfAnyAddress(st, address, stores, k) ==
    IF k > Len(stores)
    THEN [st |-> st, found |-> FALSE]
    ELSE IF stores[k] \notin UNION {statefulProcesses[a] : a \in DOMAIN statefulProcesses}
         THEN LET st1 == TraceEvent(st, "ConsistencyCheck_ExtraDataStore")
                  st2 == IF isSimulated
                         THEN TraceEvent(st1, "ConsistencyCheck_RebootProcess")
                         ELSE st1
                  rest == ExtraStoresOfAnyAddress(st2, address, stores, k + 1)
              IN [st |-> rest.st, found |-> TRUE]
         ELSE ExtraStoresOfAnyAddress(st, address, stores, k + 1)

RECURSIVE ExtraStoresOf(_, _, _, _)
\* the loop over the stores of one worker: [st, found]
ExtraStoresOf(st, address, stores, k) ==
    IF k > Len(stores)
    THEN [st |-> st, found |-> FALSE]
    ELSE IF stores[k] \notin statefulProcesses[address]
         THEN LET st1 == TraceEvent(st, "ConsistencyCheck_ExtraDataStore")
                  st2 == IF isSimulated
                         THEN TraceEvent(st1, "ConsistencyCheck_RebootProcess")
                         ELSE st1
                  rest == ExtraStoresOf(st2, address, stores, k + 1)
              IN [st |-> rest.st, found |-> TRUE]
         ELSE ExtraStoresOf(st, address, stores, k + 1)

RECURSIVE ExtraDataStoresFrom(_, _, _, _)
ExtraDataStoresFrom(st, replies, k, foundExtraDataStore) ==
    IF k > Len(replies)
    THEN IF foundExtraDataStore
         THEN [st |-> testFailure(st, "Extra data stores present on workers"),
               result |-> FALSE]
         ELSE [st |-> st, result |-> TRUE]
    ELSE IF replies[k].error
         THEN [st |-> testFailure(TraceEvent(st, "ConsistencyCheck_GetDataStoreFailure"),
                                  "Failed to get data stores"),
               result |-> FALSE]
         ELSE LET w == ExtraStoresOf(st, k, replies[k].stores, 1)
              IN ExtraDataStoresFrom(w.st, replies, k + 1, foundExtraDataStore \/ w.found)

\* replies[k] is the diskStoreRequest reply of the worker at address k
checkForExtraDataStores(st, replies) == ExtraDataStoresFrom(st, replies, 1, FALSE)

QuiescentStay == <<optVars, loopVars, performQuiescentChecks, repetitions, err, runs,
                   ksVars, klVars, pageVars, dcVars>>

CheckForUndesirableServers(storageServers) ==
    /\ pc = "checkForUndesirableServers"
    /\ LET r == checkForUndesirableServers(Sink, storageServers)
       IN /\ Leave(r.st)
          /\ hasUndesirableServers' = r.result
    /\ pc' = "getDataDistributionQueueSize"
    /\ UNCHANGED QuiescentStay

GetDataDistributionQueueSize(inDataDistributionQueue) ==
    /\ pc = "getDataDistributionQueueSize"
    /\ LET st == IF inDataDistributionQueue > 0
                 THEN testFailure(TraceEvent(Sink, "ConsistencyCheck_NonZeroDataDistributionQueue"),
                                  "Non-zero data distribution queue/in-flight size")
                 ELSE Sink
       IN Leave(st)
    /\ pc' = "getMaxTLogQueueSize"
    /\ UNCHANGED <<QuiescentStay, hasUndesirableServers>>

GetMaxTLogQueueSize(maxTLogQueueSize) ==
    /\ pc = "getMaxTLogQueueSize"
    /\ LET st == IF maxTLogQueueSize > 100000
                 THEN testFailure(TraceEvent(Sink, "ConsistencyCheck_NonZeroTLogQueue"),
                                  "Non-zero tlog queue size")
                 ELSE Sink
       IN Leave(st)
    /\ pc' = "getMaxStorageServerQueueSize"
    /\ UNCHANGED <<QuiescentStay, hasUndesirableServers>>

GetMaxStorageServerQueueSize(maxStorageServerQueueSize) ==
    /\ pc = "getMaxStorageServerQueueSize"
    /\ LET st == IF maxStorageServerQueueSize > 0
                 THEN testFailure(TraceEvent(Sink, "ConsistencyCheck_NonZeroStorageServerQueue"),
                                  "Non-zero storage server queue size")
                 ELSE Sink
       IN Leave(st)
    /\ pc' = "checkForStorage"
    /\ UNCHANGED <<QuiescentStay, hasUndesirableServers>>

\* getMaxStorageServerQueueSize threw attribute_not_found (any other error is
\* thrown on: ThrowInRunCheck)
\* a catch that reports the read of the queue size only while no check has failed
StorageQueueSizeErrorOfAnyFailure ==
    /\ pc = "getMaxStorageServerQueueSize"
    /\ LET st1 == TraceEvent(Sink, "ConsistencyCheck_StorageQueueSizeError")
           st == IF success
                 THEN testFailure(st1, "Could not read storage queue size")
                 ELSE st1
       IN Leave(st)
    /\ pc' = "checkForStorage"
    /\ UNCHANGED <<QuiescentStay, hasUndesirableServers>>

StorageQueueSizeError ==
    /\ pc = "getMaxStorageServerQueueSize"
    /\ LET st1 == TraceEvent(Sink, "ConsistencyCheck_StorageQueueSizeError")
           st == IF ~hasUndesirableServers
                 THEN testFailure(st1, "Could not read storage queue size")
                 ELSE st1
       IN Leave(st)
    /\ pc' = "checkForStorage"
    /\ UNCHANGED <<QuiescentStay, hasUndesirableServers>>

\* a check of the storage that ends runCheck when it has failed
CheckForStorageOrReturn(workers, ssAddresses) ==
    /\ pc = "checkForStorage"
    /\ Leave(checkForStorage(Sink, workers, ssAddresses).st)
    /\ pc' = IF checkForStorage(Sink, workers, ssAddresses).result
             THEN "checkForExtraDataStores"
             ELSE "finished"
    /\ UNCHANGED <<QuiescentStay, hasUndesirableServers>>

CheckForStorage(workers, ssAddresses) ==
    /\ pc = "checkForStorage"
    /\ Leave(checkForStorage(Sink, workers, ssAddresses).st)
    /\ pc' = "checkForExtraDataStores"
    /\ UNCHANGED <<QuiescentStay, hasUndesirableServers>>

CheckForExtraDataStores(replies) ==
    /\ pc = "checkForExtraDataStores"
    /\ Leave(checkForExtraDataStores(Sink, replies).st)
    /\ pc' = "checkUsingDesiredClasses"
    /\ UNCHANGED <<QuiescentStay, hasUndesirableServers>>

\* ProcessClass::Fitness, the best first
Fitnesses == <<"BestFit", "GoodFit", "UnsetFit", "WorstFit", "ExcludeFit", "NeverAssign">>

RankOf(fitness) == CHOOSE k \in DOMAIN Fitnesses : Fitnesses[k] = fitness

\* ProcessClass::machineClassFitness: the fitness of a class for a role; no
\* class has the fitness ExcludeFit, and a tester is never assigned a role
machineClassFitness(classType, role) ==
    CASE classType = "TesterClass" -> "NeverAssign"
      [] classType = "UnsetClass" -> "UnsetFit"
      [] classType = "MasterClass" ->
            IF role = "Master" THEN "BestFit"
            ELSE IF role = "ClusterController" THEN "GoodFit"
            ELSE "WorstFit"

\* the cluster that checkUsingDesiredClasses reads: the workers (address, class,
\* excluded or not) and the addresses of the roles; the worker at address 1 is
\* not excluded, address 3 has no worker
Clusters ==
    [workers : {<<[address |-> 1, classType |-> c1, excluded |-> FALSE],
                  [address |-> 2, classType |-> "MasterClass", excluded |-> e2]>> :
                   c1 \in {"MasterClass", "UnsetClass", "TesterClass"}, e2 \in BOOLEAN},
     clusterController : 1..2, master : 1..3, proxy : 1..2, resolver : 1..2]

\* std::min over the fitness of each class of the set, from NeverAssign
getBestAvailableFitness(availableClassTypes, role) ==
    LET ranks == {RankOf("NeverAssign")}
                    \cup {RankOf(machineClassFitness(c, role)) : c \in availableClassTypes}
    IN Fitnesses[CHOOSE r \in ranks : \A q \in ranks : r <= q]

\* operator[] of a map from addresses to classes: an address that is not in
\* the map gets a default-constructed ProcessClass, the unset class
FitnessAt(workers, address, role) ==
    machineClassFitness(
        IF \E k \in DOMAIN workers : workers[k].address = address
        THEN workers[CHOOSE k \in DOMAIN workers : workers[k].address = address].classType
        ELSE "UnsetClass",
        role)

checkUsingDesiredClasses(st, cluster) ==
    LET allWorkers == cluster.workers
        nonExcludedWorkers == SelectSeq(cluster.workers, LAMBDA w : ~w.excluded)
        allClassTypes == {allWorkers[k].classType : k \in DOMAIN allWorkers}
        nonExcludedClassTypes ==
            {nonExcludedWorkers[k].classType : k \in DOMAIN nonExcludedWorkers}
        count(workers, address) == \E k \in DOMAIN workers : workers[k].address = address
        bestClusterControllerFitness ==
            getBestAvailableFitness(nonExcludedClassTypes, "ClusterController")
        bestOfNonExcluded == getBestAvailableFitness(nonExcludedClassTypes, "Master")
        bestOfAll == getBestAvailableFitness(allClassTypes, "Master")
        bestMasterFitness ==
            IF bestOfNonExcluded = "NeverAssign"
            THEN IF bestOfAll # "NeverAssign" THEN "ExcludeFit" ELSE bestOfAll
            ELSE bestOfNonExcluded
        bestMasterProxyFitness == getBestAvailableFitness(nonExcludedClassTypes, "Proxy")
        bestResolverFitness == getBestAvailableFitness(nonExcludedClassTypes, "Resolver")
    IN IF \/ ~count(nonExcludedWorkers, cluster.clusterController)
          \/ FitnessAt(nonExcludedWorkers, cluster.clusterController, "ClusterController")
                # bestClusterControllerFitness
       THEN [st |-> TraceEvent(st, "ConsistencyCheck_ClusterControllerNotBest"),
             result |-> FALSE]
       ELSE IF \/ ~count(allWorkers, cluster.master)
               \/ ~count(nonExcludedWorkers, cluster.master) /\ bestMasterFitness # "ExcludeFit"
               \/ FitnessAt(nonExcludedWorkers, cluster.master, "Master") # bestMasterFitness
       THEN [st |-> TraceEvent(st, "ConsistencyCheck_MasterNotBest"), result |-> FALSE]
       ELSE IF \/ ~count(nonExcludedWorkers, cluster.proxy)
               \/ FitnessAt(nonExcludedWorkers, cluster.proxy, "Proxy") # bestMasterProxyFitness
       THEN [st |-> TraceEvent(st, "ConsistencyCheck_ProxyNotBest"), result |-> FALSE]
       ELSE IF \/ ~count(nonExcludedWorkers, cluster.resolver)
               \/ FitnessAt(nonExcludedWorkers, cluster.resolver, "Resolver")
                     # bestResolverFitness
       THEN [st |-> TraceEvent(st, "ConsistencyCheck_ResolverNotBest"), result |-> FALSE]
       ELSE [st |-> st, result |-> TRUE]

\* the check of the classes of the cluster and the failure of runCheck
CheckUsingDesiredClasses(cluster) ==
    /\ pc = "checkUsingDesiredClasses"
    /\ LET r == checkUsingDesiredClasses(Sink, cluster)
           st == IF ~r.result
                 THEN testFailure(r.st, "Cluster has machine(s) not using requested classes")
                 ELSE r.st
       IN Leave(st)
    /\ pc' = "checkWorkerList"
    /\ UNCHANGED <<QuiescentStay, hasUndesirableServers>>

\* checkWorkerList returned workerListCorrect
CheckWorkerList(workerListCorrect) ==
    /\ pc = "checkWorkerList"
    /\ LET st == IF ~workerListCorrect
                 THEN testFailure(Sink, "Worker list incorrect")
                 ELSE Sink
       IN Leave(st)
    /\ pc' = "getKeyServers"
    /\ UNCHANGED <<QuiescentStay, hasUndesirableServers>>

QuiescentWaits ==
    {"checkForUndesirableServers", "getDataDistributionQueueSize", "getMaxTLogQueueSize",
     "getMaxStorageServerQueueSize", "checkForStorage", "checkForExtraDataStores",
     "checkUsingDesiredClasses", "checkWorkerList"}

QuiescentChecks ==
    \/ \E storageServers \in StorageServerLists : CheckForUndesirableServers(storageServers)
    \/ \E q \in 0..1 : GetDataDistributionQueueSize(q)
    \/ \E q \in {100000, 100001} : GetMaxTLogQueueSize(q)
    \/ \E q \in 0..1 : GetMaxStorageServerQueueSize(q)
    \/ StorageQueueSizeError
    \/ \E workers \in WorkerLists, ssAddresses \in SUBSET (1..2) :
            CheckForStorage(workers, ssAddresses)
    \/ \E r1 \in DiskStoreReplies, r2 \in DiskStoreReplies : CheckForExtraDataStores(<<r1, r2>>)
    \/ \E cluster \in Clusters : CheckUsingDesiredClasses(cluster)
    \/ \E b \in BOOLEAN : CheckWorkerList(b)

----------------------------------------------------------------------------
(* Errors thrown at a wait *)

\* a wait that is over with the first reply
waitForAny(futures) == arrived # {}

\* waitForAll(futures): ready once every future of the vector is
waitForAll(futures) == arrived = DOMAIN futures

\* an error leaves the try of runCheck: the component actors are cancelled
ToCatch(e) ==
    /\ pc' = "catch"
    /\ err' = e
    /\ LocalsGone

RunCheckWaits == QuiescentWaits \cup {"readConfig", "getMasterProxies"}

\* a wait of runCheck, of the quiescent checks or of getKeyServers throws e (the
\* catch of getMaxStorageServerQueueSize keeps attribute_not_found)
ThrowInRunCheck(e) ==
    /\ pc \in RunCheckWaits
    /\ ~(pc = "getMaxStorageServerQueueSize" /\ e = "attribute_not_found")
    /\ ToCatch(e)
    /\ emitted' = <<>>
    /\ UNCHANGED <<optVars, loopVars, performQuiescentChecks, success, repetitions, runs>>

----------------------------------------------------------------------------
(* getKeyServers *)

\* getKeyServers up to its first wait; BUGGIFY chooses the limit
GetKeyServersBegin(limit) ==
    /\ pc = "getKeyServers"
    /\ keyServers' = <<>>
    /\ begin' = keyServersKeysBegin
    /\ limitKeyServers' = limit
    /\ pc' = "getMasterProxies"
    /\ emitted' = <<>>
    /\ UNCHANGED <<optVars, loopVars, performQuiescentChecks, success, repetitions, err, runs,
                   hasUndesirableServers, proxyInfo, keyServerLocationFutures,
                   keyServersInsertedForThisIteration, klVars, i, keyValueFutures, arrived,
                   dcVars>>

\* the roster of n proxies is read and every proxy is asked for the batch
GetMasterProxies(n) ==
    /\ pc = "getMasterProxies"
    /\ proxyInfo' = n
    /\ keyServerLocationFutures' = [p \in 1..n |-> [present |-> FALSE, results |-> <<>>]]
    /\ arrived' = {}
    /\ keyServersInsertedForThisIteration' = FALSE
    /\ pc' = "waitKeyServerLocations"
    /\ emitted' = <<>>
    /\ UNCHANGED <<optVars, loopVars, performQuiescentChecks, success, repetitions, err, runs,
                   hasUndesirableServers, keyServers, limitKeyServers, klVars, i, begin,
                   keyValueFutures, dcVars>>

\* what a proxy answers to a request: nothing, all the ranges the limit allows,
\* or the first of them alone
ProxyReplyKinds == {"absent", "all", "first"}
ProxyReplyOf(kind, results) ==
    CASE kind = "absent" -> [present |-> FALSE, results |-> <<>>]
      [] kind = "all" -> [present |-> TRUE, results |-> results]
      [] kind = "first" -> [present |-> TRUE, results |-> Take(results, 1)]

\* proxy p answers, or is found failed (getReplyUnlessFailedFor)
KeyServerLocationsReply(p, kind) ==
    /\ pc = "waitKeyServerLocations"
    /\ p \in (1..proxyInfo) \ arrived
    /\ arrived' = arrived \cup {p}
    /\ keyServerLocationFutures' =
         [keyServerLocationFutures EXCEPT ![p] =
            ProxyReplyOf(kind, GetKeyServerLocationsReply(begin, keyServersKeysEnd,
                                                          limitKeyServers))]
    /\ emitted' = <<>>
    /\ UNCHANGED <<optVars, loopVars, performQuiescentChecks, success, repetitions, pc, err, runs,
                   hasUndesirableServers, keyServers, limitKeyServers, proxyInfo,
                   keyServersInsertedForThisIteration, klVars, i, begin, keyValueFutures,
                   dcVars>>

RECURSIVE ReadKeyServerLocationsAppendsAll(_, _, _)
\* a loop over the replies of a batch that appends the results of every
\* present reply
ReadKeyServerLocationsAppendsAll(s, futures, k) ==
    IF k > Len(futures)
    THEN s
    ELSE LET shards == futures[k]
         IN IF performQuiescentChecks /\ ~shards.present
            THEN [s EXCEPT !.st = testFailure(
                                    TraceEvent(@, "ConsistencyCheck_MasterProxyUnavailable"),
                                    "Master proxy unavailable"),
                           !.failed = TRUE]
            ELSE IF shards.present
            THEN ReadKeyServerLocationsAppendsAll(
                   [s EXCEPT !.keyServers = @ \o shards.results,
                             !.inserted = TRUE,
                             !.begin = shards.results[Len(shards.results)].first.end],
                   futures, k + 1)
            ELSE ReadKeyServerLocationsAppendsAll(s, futures, k + 1)

RECURSIVE ReadKeyServerLocationsTolerant(_, _, _)
\* a loop over the replies of a batch that passes over an absent reply in a
\* quiescent run too
ReadKeyServerLocationsTolerant(s, futures, k) ==
    IF k > Len(futures)
    THEN s
    ELSE LET shards == futures[k]
         IN IF shards.present /\ ~s.inserted
            THEN LET s1 == [s EXCEPT !.keyServers = @ \o shards.results,
                                     !.inserted = TRUE,
                                     !.begin = shards.results[Len(shards.results)].first.end]
                 IN IF ~performQuiescentChecks
                    THEN s1
                    ELSE ReadKeyServerLocationsTolerant(s1, futures, k + 1)
            ELSE ReadKeyServerLocationsTolerant(s, futures, k + 1)

RECURSIVE ReadKeyServerLocationsResumesAfterFirst(_, _, _)
\* a loop over the replies of a batch that resumes from the end of the first
\* range of the reply it inserted
ReadKeyServerLocationsResumesAfterFirst(s, futures, k) ==
    IF k > Len(futures)
    THEN s
    ELSE LET shards == futures[k]
         IN IF performQuiescentChecks /\ ~shards.present
            THEN [s EXCEPT !.st = testFailure(
                                    TraceEvent(@, "ConsistencyCheck_MasterProxyUnavailable"),
                                    "Master proxy unavailable"),
                           !.failed = TRUE]
            ELSE IF shards.present /\ ~s.inserted
            THEN LET s1 == [s EXCEPT !.keyServers = @ \o shards.results,
                                     !.inserted = TRUE,
                                     !.begin = shards.results[1].first.end]
                 IN IF ~performQuiescentChecks
                    THEN s1
                    ELSE ReadKeyServerLocationsResumesAfterFirst(s1, futures, k + 1)
            ELSE ReadKeyServerLocationsResumesAfterFirst(s, futures, k + 1)

RECURSIVE ReadKeyServerLocations(_, _, _)
\* the for loop over the replies of a batch; s is [st, keyServers, begin,
\* inserted, failed]
ReadKeyServerLocations(s, futures, k) ==
    IF k > Len(futures)
    THEN s
    ELSE LET shards == futures[k]
         IN IF performQuiescentChecks /\ ~shards.present
            THEN [s EXCEPT !.st = testFailure(
                                    TraceEvent(@, "ConsistencyCheck_MasterProxyUnavailable"),
                                    "Master proxy unavailable"),
                           !.failed = TRUE]
            ELSE IF shards.present /\ ~s.inserted
            THEN LET s1 == [s EXCEPT !.keyServers = @ \o shards.results,
                                     !.inserted = TRUE,
                                     !.begin = shards.results[Len(shards.results)].first.end]
                 IN IF ~performQuiescentChecks
                    THEN s1
                    ELSE ReadKeyServerLocations(s1, futures, k + 1)
            ELSE ReadKeyServerLocations(s, futures, k + 1)

\* a getKeyServers that asks for the same batch again at once, without the
\* delay
AfterKeyServerLocationsWithoutDelay(s) ==
    /\ Leave(s.st)
    /\ arrived' = {}
    /\ IF s.failed
       THEN /\ pc' = "finished"
            /\ LocalsGone
       ELSE /\ keyServers' = s.keyServers
            /\ pc' = IF ~s.inserted \/ s.begin < keyServersKeysEnd THEN "getMasterProxies"
                     ELSE "getKeyLocations"
            /\ IF s.inserted /\ ~(s.begin < keyServersKeysEnd)
               THEN /\ begin' = 0
                    /\ limitKeyServers' = 0
                    /\ proxyInfo' = 0
                    /\ keyServerLocationFutures' = <<>>
                    /\ keyServersInsertedForThisIteration' = FALSE
               ELSE /\ begin' = s.begin
                    /\ keyServersInsertedForThisIteration' = s.inserted
                    /\ UNCHANGED <<limitKeyServers, proxyInfo, keyServerLocationFutures>>
            /\ UNCHANGED <<hasUndesirableServers, klVars, i, keyValueFutures, dcVars>>
    /\ UNCHANGED <<optVars, loopVars, performQuiescentChecks, repetitions, err, runs>>

\* the rest of a batch of getKeyServers, after the choose: return false, the
\* next batch, the delay before the same batch, or the end of getKeyServers
AfterKeyServerLocations(s) ==
    /\ Leave(s.st)
    /\ arrived' = {}
    /\ IF s.failed
       THEN /\ pc' = "finished"
            /\ LocalsGone
       ELSE /\ keyServers' = s.keyServers
            /\ pc' = IF ~s.inserted THEN "delayKeyServers"
                     ELSE IF s.begin < keyServersKeysEnd THEN "getMasterProxies"
                     ELSE "getKeyLocations"
            \* the locals of getKeyServers are gone when it returns
            /\ IF s.inserted /\ ~(s.begin < keyServersKeysEnd)
               THEN /\ begin' = 0
                    /\ limitKeyServers' = 0
                    /\ proxyInfo' = 0
                    /\ keyServerLocationFutures' = <<>>
                    /\ keyServersInsertedForThisIteration' = FALSE
               ELSE /\ begin' = s.begin
                    /\ keyServersInsertedForThisIteration' = s.inserted
                    /\ UNCHANGED <<limitKeyServers, proxyInfo, keyServerLocationFutures>>
            /\ UNCHANGED <<hasUndesirableServers, klVars, i, keyValueFutures, dcVars>>
    /\ UNCHANGED <<optVars, loopVars, performQuiescentChecks, repetitions, err, runs>>

\* waitForAll(keyServerLocationFutures) is ready
KeyServerLocationsAll ==
    /\ pc = "waitKeyServerLocations"
    /\ waitForAll(keyServerLocationFutures)
    /\ AfterKeyServerLocations(
         ReadKeyServerLocations([st |-> Sink, keyServers |-> keyServers, begin |-> begin,
                                 inserted |-> FALSE, failed |-> FALSE],
                                keyServerLocationFutures, 1))

\* cx->onMasterProxiesChanged() fires before all the replies are there
MasterProxiesChanged ==
    /\ pc = "waitKeyServerLocations"
    /\ ~waitForAll(keyServerLocationFutures)
    /\ AfterKeyServerLocations([st |-> Sink, keyServers |-> keyServers, begin |-> begin,
                                inserted |-> FALSE, failed |-> FALSE])

\* delay(1.0) is over: the same batch again
DelayKeyServersElapsed ==
    /\ pc = "delayKeyServers"
    /\ pc' = "getMasterProxies"
    /\ emitted' = <<>>
    /\ UNCHANGED <<optVars, loopVars, performQuiescentChecks, success, repetitions, err, runs, locals>>

GetKeyServers ==
    \/ \E limit \in {1, 100} : GetKeyServersBegin(limit)
    \/ \E n \in 1..MaxProxies : GetMasterProxies(n)
    \/ \E p \in 1..MaxProxies, kind \in ProxyReplyKinds : KeyServerLocationsReply(p, kind)
    \/ KeyServerLocationsAll
    \/ MasterProxiesChanged
    \/ DelayKeyServersElapsed

----------------------------------------------------------------------------
(* getKeyLocations *)

beginKeyOfAllKeys == withPrefix(allKeysBegin)
endKey == withPrefix(allKeysEnd)

\* krmDecodeRanges(keyServersPrefix, [kb, ke), kv): the ranges of the map that
\* the rows kv of a read of [kb, ke) speak of; asserted is its ASSERT
krmDecodeRanges(kb, ke, kv, more) ==
    LET first == [key |-> kb,
                  value |-> IF Len(kv) > 0 /\ kv[1].key >= keyServersPrefix
                            THEN kv[1].value ELSE Team(<<>>, <<>>)]
        last == [key |-> ke,
                 value |-> IF Len(kv) > 0 /\ kv[Len(kv)].key >= keyServersPrefix
                           THEN kv[Len(kv)].value ELSE Team(<<>>, <<>>)]
        inside == SelectSeq(kv, LAMBDA r : r.key > withPrefix(kb) /\ r.key < withPrefix(ke))
        middle == [k \in 1..Len(inside) |->
                     [key |-> removePrefix(inside[k].key), value |-> inside[k].value]]
        kvMore == more /\ ~(\E k \in 1..Len(kv) : kv[k].key >= withPrefix(ke))
    IN [asserted |-> ~more \/ Len(kv) > 1,
        data |-> <<first>> \o middle \o (IF ~kvMore THEN <<last>> ELSE <<>>),
        more |-> kvMore]

RECURSIVE ReadKeyLocationRepliesDataOnly(_, _, _)
\* a loop over the replies that compares the rows and not the more flags
ReadKeyLocationRepliesDataOnly(s, futures, j) ==
    IF j > Len(futures)
    THEN s
    ELSE LET reply == futures[j]
         IN IF ~reply.present
            THEN IF performQuiescentChecks
                 THEN [s EXCEPT !.st = testFailure(
                                         TraceEvent(@, "ConsistencyCheck_KeyServerUnavailable"),
                                         "Key server unavailable"),
                                !.outcome = "false"]
                 ELSE IF s.firstValidStorageServer < 0 /\ j = Len(futures)
                 THEN [s EXCEPT !.outcome = "throw"]
                 ELSE ReadKeyLocationRepliesDataOnly(s, futures, j + 1)
            ELSE IF s.firstValidStorageServer < 0
            THEN ReadKeyLocationRepliesDataOnly([s EXCEPT !.firstValidStorageServer = j],
                                                futures, j + 1)
            ELSE IF reply.data # futures[s.firstValidStorageServer].data
            THEN [s EXCEPT !.st = testFailure(
                                    TraceEvent(@, "ConsistencyCheck_InconsistentKeyServers"),
                                    "Key servers inconsistent"),
                           !.outcome = "false"]
            ELSE ReadKeyLocationRepliesDataOnly(s, futures, j + 1)

RECURSIVE ReadKeyLocationRepliesStrict(_, _, _)
\* a loop over the replies that fails on an absent reply, quiescent or not
ReadKeyLocationRepliesStrict(s, futures, j) ==
    IF j > Len(futures)
    THEN s
    ELSE LET reply == futures[j]
         IN IF ~reply.present
            THEN [s EXCEPT !.st = testFailure(
                                    TraceEvent(@, "ConsistencyCheck_KeyServerUnavailable"),
                                    "Key server unavailable"),
                           !.outcome = "false"]
            ELSE IF s.firstValidStorageServer < 0
            THEN ReadKeyLocationRepliesStrict([s EXCEPT !.firstValidStorageServer = j],
                                              futures, j + 1)
            ELSE IF \/ reply.data # futures[s.firstValidStorageServer].data
                    \/ reply.more # futures[s.firstValidStorageServer].more
            THEN [s EXCEPT !.st = testFailure(
                                    TraceEvent(@, "ConsistencyCheck_InconsistentKeyServers"),
                                    "Key servers inconsistent"),
                           !.outcome = "false"]
            ELSE ReadKeyLocationRepliesStrict(s, futures, j + 1)

RECURSIVE ReadKeyLocationReplies(_, _, _)
\* the for loop over the replies of a page; s is [st, firstValidStorageServer
\* (-1: none yet), outcome]; the outcome is "read", "false" (return false) or
\* "throw" (all_alternatives_failed)
ReadKeyLocationReplies(s, futures, j) ==
    IF j > Len(futures)
    THEN s
    ELSE LET reply == futures[j]
         IN IF ~reply.present
            THEN IF performQuiescentChecks
                 THEN [s EXCEPT !.st = testFailure(
                                         TraceEvent(@, "ConsistencyCheck_KeyServerUnavailable"),
                                         "Key server unavailable"),
                                !.outcome = "false"]
                 ELSE IF s.firstValidStorageServer < 0 /\ j = Len(futures)
                 THEN [s EXCEPT !.outcome = "throw"]
                 ELSE ReadKeyLocationReplies(s, futures, j + 1)
            ELSE IF s.firstValidStorageServer < 0
            THEN ReadKeyLocationReplies([s EXCEPT !.firstValidStorageServer = j], futures, j + 1)
            ELSE IF \/ reply.data # futures[s.firstValidStorageServer].data
                    \/ reply.more # futures[s.firstValidStorageServer].more
            THEN [s EXCEPT !.st = testFailure(
                                    TraceEvent(@, "ConsistencyCheck_InconsistentKeyServers"),
                                    "Key servers inconsistent"),
                           !.outcome = "false"]
            ELSE ReadKeyLocationReplies(s, futures, j + 1)

\* the end of the range read from shard n (from 0) of the key-servers map
ReadEnd(shards, n) == Min(shards[n + 1].first.end, endKey)

\* a page whose decoded ranges are all appended but the first, the boundary the
\* next page starts from included
AppendKeyLocationsKeepsBoundary(locations, bKey, keyServersShard, keyValueResponse) ==
    LET data == keyValueResponse.data
        decoded == krmDecodeRanges(removePrefix(bKey),
                                   removePrefix(Min(keyServersShard.first.end, endKey)),
                                   data, keyValueResponse.more)
        currentLocations == decoded.data
        n == Len(currentLocations)
        l1 == IF Len(data) > 0 /\ bKey = data[1].key
              THEN Append(locations, currentLocations[1]) ELSE locations
        l2 == IF n > 1 THEN l1 \o SubSeq(currentLocations, 2, n) ELSE l1
        nextKey == IF ~keyValueResponse.more THEN keyServersShard.first.end ELSE data[Len(data)].key
    IN IF ~decoded.asserted \/ ~(n > 1)
       THEN [asserted |-> FALSE, keyLocations |-> locations, beginKey |-> bKey]
       ELSE [asserted |-> TRUE, keyLocations |-> l2, beginKey |-> nextKey]

\* the rest of a page, after the replies were read: [asserted, keyLocations,
\* beginKey]
\* a page that goes on from the first key of the reply
AppendKeyLocationsFromFirstKey(locations, bKey, keyServersShard, keyValueResponse) ==
    LET data == keyValueResponse.data
        decoded == krmDecodeRanges(removePrefix(bKey),
                                   removePrefix(Min(keyServersShard.first.end, endKey)),
                                   data, keyValueResponse.more)
        currentLocations == decoded.data
        n == Len(currentLocations)
        l1 == IF Len(data) > 0 /\ bKey = data[1].key
              THEN Append(locations, currentLocations[1]) ELSE locations
        l2 == IF n > 2 THEN l1 \o SubSeq(currentLocations, 2, n - 1) ELSE l1
        nextKey == IF ~keyValueResponse.more THEN keyServersShard.first.end ELSE data[1].key
    IN IF ~decoded.asserted \/ ~(n > 1)
       THEN [asserted |-> FALSE, keyLocations |-> locations, beginKey |-> bKey]
       ELSE [asserted |-> TRUE,
             keyLocations |-> IF nextKey >= endKey THEN Append(l2, currentLocations[n]) ELSE l2,
             beginKey |-> nextKey]

AppendKeyLocations(locations, bKey, keyServersShard, keyValueResponse) ==
    LET data == keyValueResponse.data
        decoded == krmDecodeRanges(removePrefix(bKey),
                                   removePrefix(Min(keyServersShard.first.end, endKey)),
                                   data, keyValueResponse.more)
        currentLocations == decoded.data
        n == Len(currentLocations)
        l1 == IF Len(data) > 0 /\ bKey = data[1].key
              THEN Append(locations, currentLocations[1]) ELSE locations
        l2 == IF n > 2 THEN l1 \o SubSeq(currentLocations, 2, n - 1) ELSE l1
        nextKey == IF ~keyValueResponse.more THEN keyServersShard.first.end ELSE data[Len(data)].key
    IN IF ~decoded.asserted \/ ~(n > 1)
       THEN [asserted |-> FALSE, keyLocations |-> locations, beginKey |-> bKey]
       ELSE [asserted |-> TRUE,
             keyLocations |-> IF nextKey >= endKey THEN Append(l2, currentLocations[n]) ELSE l2,
             beginKey |-> nextKey]

RECURSIVE NextKeyServersShard(_, _, _)
\* the for and while heads of getKeyLocations: the first shard from n on with
\* something left to read, Len(shards) when there is none
NextKeyServersShard(shards, n, bKey) ==
    IF n >= Len(shards) THEN Len(shards)
    ELSE IF bKey < ReadEnd(shards, n) THEN n
    ELSE NextKeyServersShard(shards, n + 1, bKey)

KeyLocationsStay == <<optVars, loopVars, performQuiescentChecks, repetitions, runs>>

\* getKeyLocations up to its first wait
GetKeyLocationsBegin ==
    /\ pc = "getKeyLocations"
    /\ keyLocations' = <<>>
    /\ beginKey' = beginKeyOfAllKeys
    /\ i' = NextKeyServersShard(keyServers, 0, beginKeyOfAllKeys)
    /\ pc' = IF i' < Len(keyServers) THEN "getVersionOfKeyLocations" ELSE "checkDataConsistency"
    /\ emitted' = <<>>
    /\ UNCHANGED <<KeyLocationsStay, success, err, hasUndesirableServers, ksVars, begin,
                   keyValueFutures, arrived, dcVars>>

\* getVersion returned: the page is asked of every server of the shard
KeyLocationsRequest ==
    /\ pc = "getVersionOfKeyLocations"
    /\ keyValueFutures' = [j \in 1..Len(keyServers[i + 1].second) |-> Absent]
    /\ arrived' = {}
    /\ pc' = "waitKeyLocations"
    /\ emitted' = <<>>
    /\ UNCHANGED <<KeyLocationsStay, success, err, hasUndesirableServers, ksVars, klVars, i,
                   begin, dcVars>>

\* server j of the shard answers, or is found failed
KeyLocationsReply(j, kind) ==
    /\ pc = "waitKeyLocations"
    /\ j \in (DOMAIN keyValueFutures) \ arrived
    /\ arrived' = arrived \cup {j}
    /\ keyValueFutures' =
         [keyValueFutures EXCEPT ![j] =
            ReplyOf(kind, GetKeyValuesReply(KeyServersRows(teamMap), beginKey,
                                               ReadEnd(keyServers, i), KrmLimit))]
    /\ emitted' = <<>>
    /\ UNCHANGED <<KeyLocationsStay, success, pc, err, hasUndesirableServers, ksVars, klVars,
                   i, begin, dcVars>>

\* a catch that retries every error that the catch of runCheck holds for transient
CatchInKeyLocationsOfAnyError(e) ==
    IF e \in RetryErrors
    THEN /\ emitted' = TraceEvent(Sink, "ConsistencyCheck_RetryGetKeyLocations").events
         /\ pc' = "getVersionOfKeyLocations"
         /\ keyValueFutures' = <<>>
         /\ arrived' = {}
         /\ UNCHANGED <<KeyLocationsStay, success, err, hasUndesirableServers, ksVars, klVars,
                        i, begin, dcVars>>
    ELSE /\ ToCatch(e)
         /\ emitted' = <<>>
         /\ UNCHANGED <<KeyLocationsStay, success>>

\* the catch of a page of getKeyLocations: a version error is retried, any
\* other error is thrown on
CatchInKeyLocations(e) ==
    IF e \in VersionErrors
    THEN /\ emitted' = TraceEvent(Sink, "ConsistencyCheck_RetryGetKeyLocations").events
         /\ pc' = "getVersionOfKeyLocations"
         /\ keyValueFutures' = <<>>
         /\ arrived' = {}
         /\ UNCHANGED <<KeyLocationsStay, success, err, hasUndesirableServers, ksVars, klVars,
                        i, begin, dcVars>>
    ELSE /\ ToCatch(e)
         /\ emitted' = <<>>
         /\ UNCHANGED <<KeyLocationsStay, success>>

\* waitForAll(keyValueFutures) is ready: the replies are compared, the rows of
\* the first present reply are appended
KeyLocationsAll ==
    /\ pc = "waitKeyLocations"
    /\ waitForAll(keyValueFutures)
    /\ LET s == ReadKeyLocationReplies([st |-> Sink, firstValidStorageServer |-> -1,
                                        outcome |-> "read"], keyValueFutures, 1)
       IN CASE s.outcome = "false" ->
                 /\ Leave(s.st)
                 /\ pc' = "finished"
                 /\ LocalsGone
                 /\ UNCHANGED <<KeyLocationsStay, err>>
            [] s.outcome = "throw" -> CatchInKeyLocations("all_alternatives_failed")
            [] OTHER ->
                 LET page == AppendKeyLocations(keyLocations, beginKey, keyServers[i + 1],
                                                keyValueFutures[s.firstValidStorageServer])
                 IN IF ~page.asserted
                    THEN CatchInKeyLocations("internal_error")
                    ELSE /\ Leave(s.st)
                         /\ keyLocations' = page.keyLocations
                         /\ beginKey' = page.beginKey
                         /\ i' = NextKeyServersShard(keyServers, i, page.beginKey)
                         /\ pc' = IF i' < Len(keyServers) THEN "getVersionOfKeyLocations"
                                                          ELSE "checkDataConsistency"
                         /\ keyValueFutures' = <<>>
                         /\ arrived' = {}
                         /\ UNCHANGED <<KeyLocationsStay, err, hasUndesirableServers, ksVars,
                                        begin, dcVars>>

\* getVersion throws e (the replies of the page are ErrorOr values: the wait
\* for them throws nothing)
ThrowInKeyLocations(e) ==
    /\ pc = "getVersionOfKeyLocations"
    /\ CatchInKeyLocations(e)

GetKeyLocations ==
    \/ GetKeyLocationsBegin
    \/ KeyLocationsRequest
    \/ \E j \in 1..(TeamSize + 1) : \E kind \in ReplyKinds(j) : KeyLocationsReply(j, kind)
    \/ KeyLocationsAll
    \/ \E e \in Thrown : ThrowInKeyLocations(e)

----------------------------------------------------------------------------
(* checkDataConsistency *)

effectiveClientCount == IF distributed THEN clientCount ELSE 1
\* the index client c starts the loop over the shards at
FirstIndex(c) == c * (shardSampleFactor + 1)
\* a loop in which the other clients step by the sample factor alone
incrementWithoutClientCount == IF distributed /\ ~firstClient THEN shardSampleFactor ELSE 1
\* a loop in which the first client too steps over the shards of the others
incrementOfAnyClient == effectiveClientCount * shardSampleFactor
increment == IF distributed /\ ~firstClient THEN effectiveClientCount * shardSampleFactor ELSE 1
\* ranges: the adjacent pairs of keyLocations
Ranges(locations) ==
    [k \in 1..(Len(locations) - 1) |-> [begin |-> locations[k].key, end |-> locations[k + 1].key]]
\* sharedRandom.randomShuffle(order): a permutation of order that the seed
\* alone decides
randomShuffle(order, s) ==
    [k \in 1..Len(order) |-> order[((k - 1 + Mod32(s, Len(order))) % Len(order)) + 1]]
\* the seed of sharedRandom, a uint32_t: sharedRandomNumber + repetitions, or 1
\* when that is 0
seed ==
    LET sum == Plus32(sharedRandomNumber, repetitions)
    IN IF sum = uint32(0) THEN uint32(1) ELSE sum
\* shardOrder[n], n from 0
shardOrder(n) ==
    LET order == [k \in 1..Len(Ranges(keyLocations)) |-> k - 1]
    IN IF shuffleShards THEN randomShuffle(order, seed)[n + 1] ELSE order[n + 1]
\* the shard of the loop, its range and its teams
shard == shardOrder(i)
\* a loop in which every client compares the data of every shard it comes to
ShardIsDiffedByAll == TRUE
\* the first client skips the rest of the loop body for a shard it only sizes
ShardIsDiffed == ~firstClient \/ shard % (effectiveClientCount * shardSampleFactor) = 0
range == Ranges(keyLocations)[shard + 1]
sourceStorageServers == keyLocations[shard + 1].value.src
destStorageServers == keyLocations[shard + 1].value.dest
isRelocating == Len(destStorageServers) > 0
storageServers == IF isRelocating THEN destStorageServers ELSE sourceStorageServers

DataStay == <<optVars, loopVars, performQuiescentChecks, repetitions, runs>>

\* return false or return true of checkDataConsistency, at the end of an action
\* that left the sink st
ReturnOfDataConsistency(st) ==
    /\ Leave(st)
    /\ pc' = "finished"
    /\ LocalsGone
    /\ UNCHANGED <<DataStay, err>>

\* checkDataConsistency up to its first wait (getDatabaseSize, in simulation)
CheckDataConsistencyBegin ==
    /\ pc = "checkDataConsistency"
    /\ i' = FirstIndex(clientId)
    /\ pc' = "getDatabaseSize"
    /\ emitted' = <<>>
    /\ UNCHANGED <<DataStay, success, err, hasUndesirableServers, ksVars, klVars, begin,
                   keyValueFutures, arrived, dcVars>>

GetDatabaseSize(size) ==
    /\ pc = "getDatabaseSize"
    /\ dbSize' = size
    /\ pc' = "shard"
    /\ emitted' = <<>>
    /\ UNCHANGED <<DataStay, success, err, hasUndesirableServers, ksVars, klVars, pageVars,
                   storageServerInterfaces, estimatedBytes, acc>>

\* a head of the loop that leaves the team of a shard that is being moved
\* unchecked
ShardBeginSkipsRelocating ==
    /\ pc = "shard"
    /\ IF ~(i < Len(Ranges(keyLocations)))
       THEN ReturnOfDataConsistency(Sink)
       ELSE IF /\ firstClient /\ performQuiescentChecks /\ ~isRelocating
               /\ Len(sourceStorageServers) # storageTeamSize
       THEN ReturnOfDataConsistency(
                testFailure(TraceEvent(Sink, "ConsistencyCheck_InvalidTeamSize"),
                            "Invalid team size"))
       ELSE /\ pc' = "getServerList"
            /\ storageServerInterfaces' = <<>>
            /\ emitted' = <<>>
            /\ UNCHANGED <<DataStay, success, err, hasUndesirableServers, ksVars, klVars,
                           pageVars, dbSize, estimatedBytes, acc>>

\* the head of the loop over the shards, and the body up to the wait for the
\* serverList entries
ShardBegin ==
    /\ pc = "shard"
    /\ IF ~(i < Len(Ranges(keyLocations)))
       THEN ReturnOfDataConsistency(Sink)
       ELSE IF /\ firstClient /\ performQuiescentChecks
               /\ Len(sourceStorageServers) # storageTeamSize
       THEN ReturnOfDataConsistency(
                testFailure(TraceEvent(Sink, "ConsistencyCheck_InvalidTeamSize"),
                            "Invalid team size"))
       ELSE /\ pc' = "getServerList"
            /\ storageServerInterfaces' = <<>>
            /\ emitted' = <<>>
            /\ UNCHANGED <<DataStay, success, err, hasUndesirableServers, ksVars, klVars,
                           pageVars, dbSize, estimatedBytes, acc>>

RECURSIVE ReadServerList(_, _, _)
\* the loop over serverListValues: s is [st, interfaces]
ReadServerList(s, present, k) ==
    IF k > Len(present)
    THEN s
    ELSE IF present[k]
         THEN ReadServerList([s EXCEPT !.interfaces = Append(@, storageServers[k])],
                             present, k + 1)
         ELSE IF performQuiescentChecks
         THEN ReadServerList([s EXCEPT !.st = testFailure(
                                 @, "/FF/serverList changing in a quiescent database")],
                             present, k + 1)
         ELSE ReadServerList(s, present, k + 1)

\* what the reads of the serverList entries of n servers may answer: every
\* entry, or every entry but the first
ServerListValues(n) == { [k \in 1..n |-> TRUE], [k \in 1..n |-> k # 1] }

\* getAll(serverListEntries) returned; present[k] says whether entry k is there
GetServerList(present) ==
    /\ pc = "getServerList"
    /\ LET s == ReadServerList([st |-> Sink, interfaces |-> <<>>], present, 1)
       IN /\ Leave(s.st)
          /\ storageServerInterfaces' = s.interfaces
    /\ pc' = "getStorageSizeEstimate"
    /\ UNCHANGED <<DataStay, err, hasUndesirableServers, ksVars, klVars, pageVars, dbSize,
                   estimatedBytes, acc>>

RECURSIVE ReadStorageMetrics(_, _, _, _)
\* the loop of getStorageSizeEstimate over the replies; an absent reply is -1;
\* s is [st, estimatedBytes]
ReadStorageMetrics(s, replies, firstValidStorageServer, k) ==
    IF k > Len(replies)
    THEN s
    ELSE IF replies[k] < 0
         THEN ReadStorageMetrics(
                  [st |-> TraceEvent(s.st, "ConsistencyCheck_FailedToFetchMetrics"),
                   estimatedBytes |-> Append(s.estimatedBytes, -1)],
                  replies, firstValidStorageServer, k + 1)
         ELSE LET s1 == [s EXCEPT !.estimatedBytes = Append(@, replies[k])]
              IN IF firstValidStorageServer < 0
                 THEN ReadStorageMetrics(s1, replies, k, k + 1)
                 ELSE IF s1.estimatedBytes[firstValidStorageServer] # replies[k]
                 THEN ReadStorageMetrics(
                          [s1 EXCEPT !.st = TraceEvent(@, "ConsistencyCheck_InconsistentStorageMetrics")],
                          replies, firstValidStorageServer, k + 1)
                 ELSE ReadStorageMetrics(s1, replies, firstValidStorageServer, k + 1)

\* getStorageSizeEstimate: replies[k] is the bytes server k reports, -1 when it
\* does not reply; failed is an error in the try
getStorageSizeEstimate(st, replies, failed) ==
    IF failed
    THEN [st |-> TraceEvent(st, "ConsistencyCheck_ErrorFetchingMetrics"), estimatedBytes |-> <<>>]
    ELSE ReadStorageMetrics([st |-> st, estimatedBytes |-> <<>>], replies, -1, 1)

\* what waitMetrics of n servers may answer: the sampled bytes of the shard
\* from all, or the first server does not reply, or reports one byte more
StorageMetricsReplies(n, bytes) ==
    { [k \in 1..n |-> bytes],
      [k \in 1..n |-> IF k = 1 THEN -1 ELSE bytes],
      [k \in 1..n |-> IF k = 1 THEN bytes + 1 ELSE bytes] }

\* i += increment, and back to the head of the loop
NextShard ==
    /\ i' = i + increment
    /\ pc' = "shard"
    /\ begin' = 0
    /\ keyValueFutures' = <<>>
    /\ arrived' = {}
    /\ acc' = NoAcc

\* getStorageSizeEstimate returned; the body up to the wait for the version, or,
\* for a shard the first client only sizes, to the end of the body
GetStorageSizeEstimate(replies, failed) ==
    /\ pc = "getStorageSizeEstimate"
    /\ LET r == getStorageSizeEstimate(Sink, replies, failed)
           st == IF firstClient /\ performQuiescentChecks /\ Len(r.estimatedBytes) = 0
                 THEN testFailure(r.st, "Error fetching storage metrics")
                 ELSE r.st
       IN /\ Leave(st)
          /\ estimatedBytes' = r.estimatedBytes
    /\ IF ShardIsDiffed
       THEN /\ acc' = NoAcc
            /\ begin' = range.begin
            /\ pc' = "getVersionOfKeyValues"
            /\ UNCHANGED <<i, keyValueFutures, arrived>>
       ELSE NextShard
    /\ UNCHANGED <<DataStay, err, hasUndesirableServers, ksVars, klVars, dbSize,
                   storageServerInterfaces>>

\* the loop of the first client of a distributed run over the shard's team
\* reads estimatedBytes[j] for every member of storageServers: with fewer
\* estimates than members the read is out of the bounds of the vector
EstimateOutOfBounds(estimated) ==
    /\ firstClient
    /\ distributed
    /\ ~(performQuiescentChecks /\ Len(estimated) = 0)
    /\ Len(estimated) < Len(storageServers)

\* the read out of bounds ends the process (the other outcome, a read of any
\* value into storageServerSizes, which nothing reads, is GetStorageSizeEstimate)
StorageServerSizesOutOfBounds(replies, failed) ==
    /\ pc = "getStorageSizeEstimate"
    /\ LET r == getStorageSizeEstimate(Sink, replies, failed)
       IN /\ EstimateOutOfBounds(r.estimatedBytes)
          /\ Leave(r.st)
          /\ estimatedBytes' = r.estimatedBytes
    /\ pc' = "crashed"
    /\ UNCHANGED <<DataStay, err, hasUndesirableServers, ksVars, klVars, pageVars, dbSize,
                   storageServerInterfaces, acc>>

\* getVersion returned: the page is asked of every replica
KeyValuesRequest ==
    /\ pc = "getVersionOfKeyValues"
    /\ keyValueFutures' = [j \in 1..Len(storageServerInterfaces) |-> Absent]
    /\ arrived' = {}
    /\ pc' = "waitKeyValues"
    /\ emitted' = <<>>
    /\ UNCHANGED <<DataStay, success, err, hasUndesirableServers, ksVars, klVars, i, begin,
                   dcVars>>

\* replica j answers, or is found failed
KeyValuesReply(j, kind) ==
    /\ pc = "waitKeyValues"
    /\ j \in (DOMAIN keyValueFutures) \ arrived
    /\ arrived' = arrived \cup {j}
    /\ keyValueFutures' =
         [keyValueFutures EXCEPT ![j] =
            ReplyOf(kind, GetKeyValuesReply(DataRows, begin, range.end, DataPageLimit))]
    /\ emitted' = <<>>
    /\ UNCHANGED <<DataStay, success, pc, err, hasUndesirableServers, ksVars, klVars, i, begin,
                   dcVars>>

\* the counters and the keys of the trace event of two replies that differ,
\* before the walk; -1 stands for the empty key
NoDiff == [currentUniques |-> 0, referenceUniques |-> 0, valueMismatches |-> 0,
           matchingKVPairs |-> 0, currentUniqueKey |-> -1, referenceUniqueKey |-> -1,
           valueMismatchKey |-> -1]

RECURSIVE AlignmentDiffLeavingTheRest(_, _, _, _, _)
\* a walk that stops at the end of the shorter reply
AlignmentDiffLeavingTheRest(current, reference, currentI, referenceI, d) ==
    IF ~(currentI <= Len(current) /\ referenceI <= Len(reference))
    THEN d
    ELSE LET currentKV == current[currentI]
             referenceKV == reference[referenceI]
         IN IF currentKV.key = referenceKV.key
            THEN AlignmentDiffLeavingTheRest(
                     current, reference, currentI + 1, referenceI + 1,
                     IF currentKV.value = referenceKV.value
                     THEN [d EXCEPT !.matchingKVPairs = @ + 1]
                     ELSE [d EXCEPT !.valueMismatchKey = currentKV.key,
                                    !.valueMismatches = @ + 1])
            ELSE IF currentKV.key < referenceKV.key
            THEN AlignmentDiffLeavingTheRest(
                     current, reference, currentI + 1, referenceI,
                     [d EXCEPT !.currentUniqueKey = currentKV.key, !.currentUniques = @ + 1])
            ELSE AlignmentDiffLeavingTheRest(
                     current, reference, currentI, referenceI + 1,
                     [d EXCEPT !.referenceUniqueKey = referenceKV.key,
                               !.referenceUniques = @ + 1])

RECURSIVE AlignmentDiff(_, _, _, _, _)
\* the while loop over the rows of the current and of the reference reply;
\* currentI and referenceI are the places of the rows (from 1)
AlignmentDiff(current, reference, currentI, referenceI, d) ==
    IF ~(currentI <= Len(current) \/ referenceI <= Len(reference))
    THEN d
    ELSE IF currentI > Len(current)
    THEN AlignmentDiff(current, reference, currentI, referenceI + 1,
                       [d EXCEPT !.referenceUniqueKey = reference[referenceI].key,
                                 !.referenceUniques = @ + 1])
    ELSE IF referenceI > Len(reference)
    THEN AlignmentDiff(current, reference, currentI + 1, referenceI,
                       [d EXCEPT !.currentUniqueKey = current[currentI].key,
                                 !.currentUniques = @ + 1])
    ELSE LET currentKV == current[currentI]
             referenceKV == reference[referenceI]
         IN IF currentKV.key = referenceKV.key
            THEN AlignmentDiff(current, reference, currentI + 1, referenceI + 1,
                               IF currentKV.value = referenceKV.value
                               THEN [d EXCEPT !.matchingKVPairs = @ + 1]
                               ELSE [d EXCEPT !.valueMismatchKey = currentKV.key,
                                              !.valueMismatches = @ + 1])
            ELSE IF currentKV.key < referenceKV.key
            THEN AlignmentDiff(current, reference, currentI + 1, referenceI,
                               [d EXCEPT !.currentUniqueKey = currentKV.key,
                                         !.currentUniques = @ + 1])
            ELSE AlignmentDiff(current, reference, currentI, referenceI + 1,
                               [d EXCEPT !.referenceUniqueKey = referenceKV.key,
                                         !.referenceUniques = @ + 1])

\* TraceEvent("ConsistencyCheck_DataInconsistent") with the details of the walk
DataInconsistent(st, current, reference) ==
    [st EXCEPT !.events =
        Append(@, [name |-> "ConsistencyCheck_DataInconsistent", reason |-> "",
                   detail |-> AlignmentDiff(current.data, reference.data, 1, 1, NoDiff)])]

RECURSIVE ReadKeyValueRepliesDataOnly(_, _, _)
\* a loop over the replies that compares the rows and not the more flags
ReadKeyValueRepliesDataOnly(s, futures, j) ==
    IF j > Len(futures)
    THEN s
    ELSE LET rangeResult == futures[j]
         IN IF rangeResult.present
            THEN IF s.firstValidServer = -1
                 THEN ReadKeyValueRepliesDataOnly([s EXCEPT !.firstValidServer = j],
                                                  futures, j + 1)
                 ELSE IF rangeResult.data # futures[s.firstValidServer].data
                 THEN [s EXCEPT !.st = testFailure(
                                         TraceEvent(@, "ConsistencyCheck_DataInconsistent"),
                                         "Data inconsistent"),
                                !.outcome = "false"]
                 ELSE ReadKeyValueRepliesDataOnly(s, futures, j + 1)
            ELSE IF ~isRelocating
            THEN LET s1 == [s EXCEPT !.st = TraceEvent(
                                              @, "ConsistencyCheck_StorageServerUnavailable")]
                 IN IF performQuiescentChecks
                    THEN [s1 EXCEPT !.st = testFailure(@, "Storage server unavailable"),
                                    !.outcome = "false"]
                    ELSE ReadKeyValueRepliesDataOnly(s1, futures, j + 1)
            ELSE ReadKeyValueRepliesDataOnly(s, futures, j + 1)

RECURSIVE ReadKeyValueRepliesTolerant(_, _, _)
\* a loop over the replies that goes on after an absent reply, quiescent or not
ReadKeyValueRepliesTolerant(s, futures, j) ==
    IF j > Len(futures)
    THEN s
    ELSE LET rangeResult == futures[j]
         IN IF rangeResult.present
            THEN IF s.firstValidServer = -1
                 THEN ReadKeyValueRepliesTolerant([s EXCEPT !.firstValidServer = j],
                                                  futures, j + 1)
                 ELSE IF \/ rangeResult.data # futures[s.firstValidServer].data
                         \/ rangeResult.more # futures[s.firstValidServer].more
                 THEN [s EXCEPT !.st = testFailure(
                                         TraceEvent(@, "ConsistencyCheck_DataInconsistent"),
                                         "Data inconsistent"),
                                !.outcome = "false"]
                 ELSE ReadKeyValueRepliesTolerant(s, futures, j + 1)
            ELSE IF ~isRelocating
            THEN ReadKeyValueRepliesTolerant(
                     [s EXCEPT !.st = TraceEvent(@, "ConsistencyCheck_StorageServerUnavailable")],
                     futures, j + 1)
            ELSE ReadKeyValueRepliesTolerant(s, futures, j + 1)

RECURSIVE ReadKeyValueRepliesOfAnyShard(_, _, _)
\* a loop over the replies that reports an absent reply of a shard that is
\* being moved too
ReadKeyValueRepliesOfAnyShard(s, futures, j) ==
    IF j > Len(futures)
    THEN s
    ELSE LET rangeResult == futures[j]
         IN IF rangeResult.present
            THEN IF s.firstValidServer = -1
                 THEN ReadKeyValueRepliesOfAnyShard([s EXCEPT !.firstValidServer = j], futures, j + 1)
                 ELSE LET reference == futures[s.firstValidServer]
                      IN IF \/ rangeResult.data # reference.data
                            \/ rangeResult.more # reference.more
                         THEN [s EXCEPT !.st = testFailure(
                                             TraceEvent(@, "ConsistencyCheck_DataInconsistent"),
                                             "Data inconsistent"),
                                        !.outcome = "false"]
                         ELSE ReadKeyValueRepliesOfAnyShard(s, futures, j + 1)
            ELSE IF ~isRelocating \/ ~performQuiescentChecks
            THEN LET s1 == [s EXCEPT !.st = TraceEvent(
                                              @, "ConsistencyCheck_StorageServerUnavailable")]
                 IN IF performQuiescentChecks
                    THEN [s1 EXCEPT !.st = testFailure(@, "Storage server unavailable"),
                                    !.outcome = "false"]
                    ELSE ReadKeyValueRepliesOfAnyShard(s1, futures, j + 1)
            ELSE ReadKeyValueRepliesOfAnyShard(s, futures, j + 1)

RECURSIVE ReadKeyValueReplies(_, _, _)
\* the for loop over the replies of a page of a shard; s is [st,
\* firstValidServer (-1: none yet), outcome]; the outcome is "read" or "false"
\* (return false)
ReadKeyValueReplies(s, futures, j) ==
    IF j > Len(futures)
    THEN s
    ELSE LET rangeResult == futures[j]
         IN IF rangeResult.present
            THEN IF s.firstValidServer = -1
                 THEN ReadKeyValueReplies([s EXCEPT !.firstValidServer = j], futures, j + 1)
                 ELSE LET reference == futures[s.firstValidServer]
                      IN IF \/ rangeResult.data # reference.data
                            \/ rangeResult.more # reference.more
                         THEN [s EXCEPT !.st = testFailure(
                                             DataInconsistent(@, rangeResult, reference),
                                             "Data inconsistent"),
                                        !.outcome = "false"]
                         ELSE ReadKeyValueReplies(s, futures, j + 1)
            ELSE IF ~isRelocating
            THEN LET s1 == [s EXCEPT !.st = TraceEvent(
                                              @, "ConsistencyCheck_StorageServerUnavailable")]
                 IN IF performQuiescentChecks
                    THEN [s1 EXCEPT !.st = testFailure(@, "Storage server unavailable"),
                                    !.outcome = "false"]
                    ELSE ReadKeyValueReplies(s1, futures, j + 1)
            ELSE ReadKeyValueReplies(s, futures, j + 1)

RECURSIVE SampleRowsOfEveryKey(_, _, _, _)
\* a loop over the rows that takes every row for a row of the sample
SampleRowsOfEveryKey(a, data, k, shardBounds) ==
    IF k > Len(data)
    THEN [a EXCEPT !.shardKeys = @ + Len(data)]
    ELSE LET sampleInfo == isKeyValueInSample(data[k])
             a1 == [a EXCEPT !.shardBytes = @ + sampleInfo.size,
                             !.shardVariance =
                                 IF sampleInfo.size < sampleInfo.sampledSize
                                 THEN @ + sampleInfo.size * (sampleInfo.sampledSize - sampleInfo.size)
                                 ELSE @]
             sampled == a1.sampledBytes + sampleInfo.sampledSize
             split == /\ ~a1.canSplit
                      /\ sampled >= shardBounds.min
                      /\ 3 * sampled <= shardBounds.max
             a2 == [a1 EXCEPT !.sampledBytes = sampled,
                              !.canSplit = @ \/ split,
                              !.splitBytes = IF split THEN sampled ELSE @,
                              !.firstKeySampledBytes =
                                  IF k = 1 THEN @ + sampleInfo.sampledSize ELSE @,
                              !.sampledKeys = @ + 1]
         IN SampleRowsOfEveryKey(a2, data, k + 1, shardBounds)

RECURSIVE SampleRows(_, _, _, _)
\* the loop over the rows of the first present reply: a is the accumulators,
\* k the place of the row in the page (from 1)
SampleRows(a, data, k, shardBounds) ==
    IF k > Len(data)
    THEN [a EXCEPT !.shardKeys = @ + Len(data)]
    ELSE LET sampleInfo == isKeyValueInSample(data[k])
             a1 == [a EXCEPT !.shardBytes = @ + sampleInfo.size,
                             !.shardVariance =
                                 IF sampleInfo.size < sampleInfo.sampledSize
                                 THEN @ + sampleInfo.size * (sampleInfo.sampledSize - sampleInfo.size)
                                 ELSE @]
             sampled == a1.sampledBytes + sampleInfo.sampledSize
             split == /\ ~a1.canSplit
                      /\ sampled >= shardBounds.min
                      /\ 3 * sampled <= shardBounds.max
             a2 == [a1 EXCEPT !.sampledBytes = sampled,
                              !.canSplit = @ \/ split,
                              !.splitBytes = IF split THEN sampled ELSE @,
                              !.firstKeySampledBytes =
                                  IF k = 1 THEN @ + sampleInfo.sampledSize ELSE @,
                              !.sampledKeys = @ + 1]
         IN SampleRows(IF sampleInfo.inSample THEN a2 ELSE a1, data, k + 1, shardBounds)

RECURSIVE CheckEstimatesOfEveryReplica(_, _, _, _)
\* a loop over estimatedBytes that goes on after an estimate that is wrong or
\* missing
CheckEstimatesOfEveryReplica(st, estimates, sampledBytes, j) ==
    IF j > Len(estimates)
    THEN st
    ELSE IF estimates[j] >= 0 /\ estimates[j] # sampledBytes
         THEN CheckEstimatesOfEveryReplica(
                  testFailure(TraceEvent(st, "ConsistencyCheck_IncorrectEstimate"),
                              "Storage servers had incorrect sampled estimate"),
                  estimates, sampledBytes, j + 1)
         ELSE IF estimates[j] < 0
         THEN CheckEstimatesOfEveryReplica(
                  testFailure(st, "Could not get storage metrics from server"),
                  estimates, sampledBytes, j + 1)
         ELSE CheckEstimatesOfEveryReplica(st, estimates, sampledBytes, j + 1)

RECURSIVE CheckEstimates(_, _, _, _)
\* the loop over estimatedBytes: it ends at the first estimate that is wrong
\* or missing
CheckEstimates(st, estimates, sampledBytes, j) ==
    IF j > Len(estimates)
    THEN st
    ELSE IF estimates[j] >= 0 /\ estimates[j] # sampledBytes
         THEN testFailure(TraceEvent(st, "ConsistencyCheck_IncorrectEstimate"),
                          "Storage servers had incorrect sampled estimate")
         ELSE IF estimates[j] < 0
         THEN testFailure(st, "Could not get storage metrics from server")
         ELSE CheckEstimates(st, estimates, sampledBytes, j + 1)

Abs(x) == IF x < 0 THEN -x ELSE x
startsWithKeyServersPrefix(k) == k >= keyServersPrefix

\* a body that checks the estimate of the size from 30 sampled keys on
CheckShardSizeFromThirtyKeys(st, a, estimates, shardBounds, rangeBegin) ==
    LET canSplit == /\ a.canSplit
                    /\ a.sampledBytes - a.splitBytes >= shardBounds.min
                    /\ a.sampledBytes > a.splitBytes
        st1 == IF performQuiescentChecks
               THEN CheckEstimates(st, estimates, a.sampledBytes, 1)
               ELSE st
        estimateError == Abs(a.shardBytes - a.sampledBytes)
        st2 == IF a.sampledKeys >= 30 /\ estimateError * estimateError > 49 * a.shardVariance
               THEN testFailure(TraceEvent(st1, "ConsistencyCheck_InaccurateShardEstimate"),
                                "Shard size is more than 7 std dev from estimate")
               ELSE st1
    IN IF /\ canSplit /\ a.sampledKeys > 5 /\ performQuiescentChecks
          /\ ~startsWithKeyServersPrefix(rangeBegin)
          /\ \/ a.sampledBytes < shardBounds.min - 3 * shardBounds.permittedError
             \/ a.sampledBytes - a.firstKeySampledBytes
                  > shardBounds.max + 3 * shardBounds.permittedError
       THEN [st |-> testFailure(TraceEvent(st2, "ConsistencyCheck_InvalidShardSize"),
                                IF a.sampledBytes < shardBounds.min
                                THEN "Shard size in quiescent database is too small"
                                ELSE "Shard size in quiescent database is too large"),
             outcome |-> "false"]
       ELSE [st |-> st2, outcome |-> "next"]

\* the body of the loop over the shards after the read loop: [st, outcome]
CheckShardSize(st, a, estimates, shardBounds, rangeBegin) ==
    LET canSplit == /\ a.canSplit
                    /\ a.sampledBytes - a.splitBytes >= shardBounds.min
                    /\ a.sampledBytes > a.splitBytes
        st1 == IF performQuiescentChecks
               THEN CheckEstimates(st, estimates, a.sampledBytes, 1)
               ELSE st
        estimateError == Abs(a.shardBytes - a.sampledBytes)
        \* estimateError > 7 * sqrt(shardVariance)
        st2 == IF a.sampledKeys > 30 /\ estimateError * estimateError > 49 * a.shardVariance
               THEN testFailure(TraceEvent(st1, "ConsistencyCheck_InaccurateShardEstimate"),
                                "Shard size is more than 7 std dev from estimate")
               ELSE st1
    IN IF /\ canSplit /\ a.sampledKeys > 5 /\ performQuiescentChecks
          /\ ~startsWithKeyServersPrefix(rangeBegin)
          /\ \/ a.sampledBytes < shardBounds.min - 3 * shardBounds.permittedError
             \/ a.sampledBytes - a.firstKeySampledBytes
                  > shardBounds.max + 3 * shardBounds.permittedError
       THEN [st |-> testFailure(TraceEvent(st2, "ConsistencyCheck_InvalidShardSize"),
                                IF a.sampledBytes < shardBounds.min
                                THEN "Shard size in quiescent database is too small"
                                ELSE "Shard size in quiescent database is too large"),
             outcome |-> "false"]
       ELSE [st |-> st2, outcome |-> "next"]

\* the catch of a page of a shard: a version error is retried, any other
\* error is thrown on
CatchInDataConsistency(e) ==
    IF e \in VersionErrors
    THEN /\ emitted' = TraceEvent(Sink, "ConsistencyCheck_RetryDataConsistency").events
         /\ pc' = "getVersionOfKeyValues"
         /\ keyValueFutures' = <<>>
         /\ arrived' = {}
         /\ UNCHANGED <<DataStay, success, err, hasUndesirableServers, ksVars, klVars, i,
                        begin, dcVars>>
    ELSE /\ ToCatch(e)
         /\ emitted' = <<>>
         /\ UNCHANGED <<DataStay, success>>

\* firstValidServer once the loop over the replies is over: the first present
\* reply, -1 when there is none
firstValidServerOf(futures) ==
    IF \E j \in DOMAIN futures : futures[j].present
    THEN CHOOSE j \in DOMAIN futures :
             futures[j].present /\ \A k \in 1..(j - 1) : ~futures[k].present
    ELSE -1

RECURSIVE expectedSize(_)
\* data.expectedSize(): the bytes of the rows of a reply
expectedSize(data) ==
    IF data = <<>>
    THEN 0
    ELSE isKeyValueInSample(Head(data)).size + expectedSize(Tail(data))

RECURSIVE ReadAmountOf(_, _)
\* the loop over the replies of a page, from reply j on: what it adds to
\* totalReadAmount
ReadAmountOf(futures, j) ==
    IF j > Len(futures)
    THEN 0
    ELSE (IF futures[j].present THEN expectedSize(futures[j].data) ELSE 0)
         + ReadAmountOf(futures, j + 1)

\* a totalReadAmount that holds the bytes of the reference reply alone
totalReadAmountOfReference ==
    IF firstValidServerOf(keyValueFutures) < 0
    THEN 0
    ELSE expectedSize(keyValueFutures[firstValidServerOf(keyValueFutures)].data)

\* totalReadAmount once the replies of the page have been compared: what
\* getAllowance is asked for
totalReadAmount == ReadAmountOf(keyValueFutures, 1)

\* the end of a page attempt, after the rate limit: the next page is asked for,
\* or the read loop is left and the sizes of the shard are checked; st is the
\* sink and a the accumulators the attempt has come to
\* a read loop that asks again for a page that no replica answered
AdvanceOrRetry(st, a, firstValidServer) ==
    LET reference == keyValueFutures[firstValidServer]
        shardBounds == getShardSizeBounds(dbSize)
    IN IF firstValidServer < 0
       THEN /\ Leave(st)
            /\ acc' = a
            /\ pc' = "getVersionOfKeyValues"
            /\ keyValueFutures' = <<>>
            /\ arrived' = {}
            /\ UNCHANGED <<DataStay, err, hasUndesirableServers, ksVars, klVars, i, begin,
                           dbSize, storageServerInterfaces, estimatedBytes>>
       ELSE IF reference.more
       THEN IF ~(Len(reference.data) > 0)
               \/ reference.data[Len(reference.data)].key = allKeysEnd
            THEN CatchInDataConsistency("internal_error")
            ELSE /\ Leave(st)
                 /\ acc' = a
                 /\ begin' = reference.data[Len(reference.data)].key + 1
                 /\ pc' = "getVersionOfKeyValues"
                 /\ keyValueFutures' = <<>>
                 /\ arrived' = {}
                 /\ UNCHANGED <<DataStay, err, hasUndesirableServers, ksVars,
                                klVars, i, dbSize, storageServerInterfaces,
                                estimatedBytes>>
       ELSE LET c == CheckShardSize(st, a, estimatedBytes, shardBounds, range.begin)
            IN IF c.outcome = "false"
               THEN ReturnOfDataConsistency(c.st)
               ELSE /\ Leave(c.st)
                    /\ NextShard
                    /\ storageServerInterfaces' = <<>>
                    /\ estimatedBytes' = <<>>
                    /\ UNCHANGED <<DataStay, err, hasUndesirableServers, ksVars,
                                   klVars, dbSize>>

AdvanceOrBreak(st, a, firstValidServer) ==
    LET reference == keyValueFutures[firstValidServer]
        shardBounds == getShardSizeBounds(dbSize)
    IN IF firstValidServer >= 0 /\ reference.more
       THEN IF ~(Len(reference.data) > 0)
               \/ reference.data[Len(reference.data)].key = allKeysEnd
            THEN CatchInDataConsistency("internal_error")
            ELSE /\ Leave(st)
                 /\ acc' = a
                 /\ begin' = reference.data[Len(reference.data)].key + 1
                 /\ pc' = "getVersionOfKeyValues"
                 /\ keyValueFutures' = <<>>
                 /\ arrived' = {}
                 /\ UNCHANGED <<DataStay, err, hasUndesirableServers, ksVars,
                                klVars, i, dbSize, storageServerInterfaces,
                                estimatedBytes>>
       ELSE LET c == CheckShardSize(st, a, estimatedBytes, shardBounds, range.begin)
            IN IF c.outcome = "false"
               THEN ReturnOfDataConsistency(c.st)
               ELSE /\ Leave(c.st)
                    /\ NextShard
                    /\ storageServerInterfaces' = <<>>
                    /\ estimatedBytes' = <<>>
                    /\ UNCHANGED <<DataStay, err, hasUndesirableServers, ksVars,
                                   klVars, dbSize>>

\* a page attempt that waits for its allowance whatever the rate limit is
KeyValuesAllAlwaysLimited ==
    /\ pc = "waitKeyValues"
    /\ waitForAll(keyValueFutures)
    /\ LET s == ReadKeyValueReplies([st |-> Sink, firstValidServer |-> -1, outcome |-> "read"],
                                    keyValueFutures, 1)
           shardBounds == getShardSizeBounds(dbSize)
       IN IF s.outcome = "false"
          THEN ReturnOfDataConsistency(s.st)
          ELSE LET reference == keyValueFutures[s.firstValidServer]
                   a == IF s.firstValidServer >= 0
                        THEN SampleRows(acc, reference.data, 1, shardBounds)
                        ELSE acc
               IN IF rateLimit >= 0
                  THEN /\ Leave(s.st)
                       /\ acc' = a
                       /\ pc' = "getAllowance"
                       /\ UNCHANGED <<DataStay, err, hasUndesirableServers, ksVars, klVars,
                                      pageVars, dbSize, storageServerInterfaces,
                                      estimatedBytes>>
                  ELSE AdvanceOrBreak(s.st, a, s.firstValidServer)

\* waitForAll(keyValueFutures) is ready: the replies are compared and the rows
\* of the first present reply are sampled; with a rate limit the attempt then
\* waits for its allowance, without one it goes on at once
KeyValuesAll ==
    /\ pc = "waitKeyValues"
    /\ waitForAll(keyValueFutures)
    /\ LET s == ReadKeyValueReplies([st |-> Sink, firstValidServer |-> -1, outcome |-> "read"],
                                    keyValueFutures, 1)
           shardBounds == getShardSizeBounds(dbSize)
       IN IF s.outcome = "false"
          THEN ReturnOfDataConsistency(s.st)
          ELSE LET reference == keyValueFutures[s.firstValidServer]
                   a == IF s.firstValidServer >= 0
                        THEN SampleRows(acc, reference.data, 1, shardBounds)
                        ELSE acc
               IN IF rateLimit > 0
                  THEN /\ Leave(s.st)
                       /\ acc' = a
                       /\ pc' = "getAllowance"
                       /\ UNCHANGED <<DataStay, err, hasUndesirableServers, ksVars, klVars,
                                      pageVars, dbSize, storageServerInterfaces,
                                      estimatedBytes>>
                  ELSE AdvanceOrBreak(s.st, a, s.firstValidServer)

\* rateLimiter->getAllowance(totalReadAmount) returned
GetAllowance ==
    /\ pc = "getAllowance"
    /\ AdvanceOrBreak(Sink, acc, firstValidServerOf(keyValueFutures))

\* getVersion throws e (the replies of the page are ErrorOr values: the wait
\* for them throws nothing)
ThrowInDataConsistency(e) ==
    /\ pc = "getVersionOfKeyValues"
    /\ CatchInDataConsistency(e)

\* a wait of checkDataConsistency outside the read loop throws e
ThrowInShard(e) ==
    /\ pc \in {"getDatabaseSize", "getServerList"}
    /\ ToCatch(e)
    /\ emitted' = <<>>
    /\ UNCHANGED <<DataStay, success>>

CheckDataConsistency ==
    \/ CheckDataConsistencyBegin
    \/ \E size \in 0..1 : GetDatabaseSize(size)
    \/ ShardBegin
    \/ /\ pc = "getServerList"
       /\ \E present \in ServerListValues(Len(storageServers)) : GetServerList(present)
    \/ /\ pc = "getStorageSizeEstimate"
       /\ \E replies \in StorageMetricsReplies(Len(storageServerInterfaces),
                                               StorageMetricsBytes(range.begin, range.end)) :
               GetStorageSizeEstimate(replies, FALSE)
    \/ GetStorageSizeEstimate(<<>>, TRUE)
    \/ /\ pc = "getStorageSizeEstimate"
       /\ \E replies \in StorageMetricsReplies(Len(storageServerInterfaces),
                                               StorageMetricsBytes(range.begin, range.end)) :
               StorageServerSizesOutOfBounds(replies, FALSE)
    \/ StorageServerSizesOutOfBounds(<<>>, TRUE)
    \/ KeyValuesRequest
    \/ \E j \in 1..(TeamSize + 1) : \E kind \in ReplyKinds(j) : KeyValuesReply(j, kind)
    \/ KeyValuesAll
    \/ \E e \in Thrown : ThrowInDataConsistency(e)
    \/ \E e \in Thrown : ThrowInShard(e)

----------------------------------------------------------------------------
(* The client *)

Next ==
    \/ SetupBegin
    \/ QuietDatabaseDone
    \/ QuietDatabaseError
    \/ StartRunCheck
    \/ \E tooMany \in BOOLEAN : ReadConfiguration(tooMany)
    \/ QuiescentChecks
    \/ \E e \in Thrown : ThrowInRunCheck(e)
    \/ GetKeyServers
    \/ GetKeyLocations
    \/ CheckDataConsistency
    \/ CatchError
    \/ FinishedCheck
    \/ DelayElapsed

Spec == Init /\ [][Next]_vars

----------------------------------------------------------------------------
(* The loop over the shards of checkDataConsistency, run alone: every shard *)
(* is read without a failure, so that what is left of the body is the head  *)
(* of the loop, the test before the comparison and the step.  The clients   *)
(* of the run share nothing and take the loop one after the other.          *)

\* sharedRandomNumber: zero, one, and the greatest uint32_t
SharedRandomNumbers == {uint32(0), uint32(1), [hi |-> Half - 1, lo |-> Half - 1]}
\* the rows of keyLocations of n shards
LocationsOf(n) == [k \in 1..(n + 1) |-> [key |-> k - 1, value |-> Team(FullTeam, <<>>)]]
\* the clients that run runCheck: all of them in a distributed run, the first
\* one alone otherwise
RunningClients == IF distributed THEN 0..(clientCount - 1) ELSE {0}

ShardLoopInit ==
    /\ clientCount \in 1..ClientCount
    /\ suspended = <<>>
    /\ clientId = 0
    /\ distributed \in BOOLEAN
    /\ indefinite = FALSE
    /\ shardSampleFactor \in 1..MaxShardSampleFactor
    /\ shuffleShards \in BOOLEAN
    /\ sharedRandomNumber \in SharedRandomNumbers
    /\ rateLimit = 0
    /\ repetitions \in 0..MaxRepetitions
    /\ keyLocations \in {LocationsOf(n) : n \in 1..MaxShards}
    /\ i = FirstIndex(0)
    /\ pc = "shard"
    /\ examined = [c \in 0..(clientCount - 1) |-> <<>>]
    /\ diffed = [c \in 0..(clientCount - 1) |-> {}]
    /\ performQuiescentChecks = FALSE
    /\ teamMap \in {tm \in TeamMaps : \A k \in DOMAIN tm : Len(tm[k].src) = storageTeamSize}
    /\ success = TRUE
    /\ err = "none"
    /\ emitted = <<>>
    /\ runs = 1
    /\ hasUndesirableServers = FALSE
    /\ keyServers = <<>>
    /\ limitKeyServers = 0
    /\ proxyInfo = 0
    /\ keyServerLocationFutures = <<>>
    /\ keyServersInsertedForThisIteration = FALSE
    /\ beginKey = 0
    /\ begin = 0
    /\ keyValueFutures = <<>>
    /\ arrived = {}
    /\ dbSize = 0
    /\ storageServerInterfaces = <<>>
    /\ estimatedBytes = <<>>
    /\ acc = NoAcc

ShardLoopStay ==
    <<clientCount, distributed, indefinite, shardSampleFactor, shuffleShards,
      sharedRandomNumber, rateLimit, teamMap, suspended, performQuiescentChecks, success,
      repetitions, err,
      emitted, runs, hasUndesirableServers, ksVars, klVars, begin, keyValueFutures, arrived,
      dcVars>>

\* an iteration of the loop: the shard of index i is sized, its data are
\* compared if the client is to compare them, and i moves on
VisitShard ==
    /\ pc = "shard"
    /\ i < Len(Ranges(keyLocations))
    /\ examined' = [examined EXCEPT ![clientId] = Append(@, [index |-> i, shard |-> shard])]
    /\ diffed' = [diffed EXCEPT ![clientId] = IF ShardIsDiffed THEN @ \cup {shard} ELSE @]
    /\ i' = i + increment
    /\ UNCHANGED <<clientId, pc, ShardLoopStay>>

\* the loop of a client is over: that of the next client of the run
NextClient ==
    /\ pc = "shard"
    /\ ~(i < Len(Ranges(keyLocations)))
    /\ clientId + 1 \in RunningClients
    /\ clientId' = clientId + 1
    /\ i' = FirstIndex(clientId + 1)
    /\ UNCHANGED <<pc, loopVars, ShardLoopStay>>

\* the loop of the last client of the run is over
LastClientDone ==
    /\ pc = "shard"
    /\ ~(i < Len(Ranges(keyLocations)))
    /\ clientId + 1 \notin RunningClients
    /\ pc' = "finished"
    /\ UNCHANGED <<clientId, i, loopVars, ShardLoopStay>>

ShardLoopNext ==
    \/ VisitShard
    \/ NextClient
    \/ LastClientDone

ShardLoopSpec == ShardLoopInit /\ [][ShardLoopNext]_vars

----------------------------------------------------------------------------
(* checkDataConsistency run alone, from its call by runCheck to its return  *)
(* or to the error it throws, with a rate limit or without one and over     *)
(* more teams than the whole workload is run with.                          *)

\* the rateLimit option: none, and one byte per second
RateLimits == {0, 1}
\* the teams of the whole workload, and a second shard that is moved away from
\* a short team
TeamMapsOfDataConsistency ==
    TeamMaps \cup {<<Team(FullTeam, <<>>), Team(ShortTeam, DestTeam), Team(FullTeam, <<>>)>>}
\* what getKeyLocations returns for the teams: a row at the begin of every shard
\* and the row of allKeys.end, which holds the value of the last shard
KeyLocationsOf(teams) ==
    [k \in 1..(Len(shardBegins) + 1) |->
        IF k <= Len(shardBegins)
        THEN [key |-> shardBegins[k], value |-> teams[k]]
        ELSE [key |-> allKeysEnd, value |-> teams[Len(shardBegins)]]]

DataConsistencyInit ==
    /\ clientCount = ClientCount
    /\ suspended = <<>>
    /\ clientId \in 0..(clientCount - 1)
    /\ distributed \in BOOLEAN
    /\ firstClient \/ distributed
    /\ indefinite = FALSE
    /\ shardSampleFactor = 1
    /\ shuffleShards = FALSE
    /\ sharedRandomNumber = uint32(0)
    /\ rateLimit \in RateLimits
    /\ examined = <<>>
    /\ diffed = <<>>
    /\ performQuiescentChecks \in BOOLEAN
    /\ teamMap \in TeamMapsOfDataConsistency
    /\ success = TRUE
    /\ repetitions = 0
    /\ pc = "checkDataConsistency"
    /\ err = "none"
    /\ emitted = <<>>
    /\ runs = 1
    /\ hasUndesirableServers = FALSE
    /\ keyServers = keyServersShards
    /\ limitKeyServers = 0
    /\ proxyInfo = 0
    /\ keyServerLocationFutures = <<>>
    /\ keyServersInsertedForThisIteration = FALSE
    /\ keyLocations = KeyLocationsOf(teamMap)
    /\ beginKey = keyServersKeysEnd
    /\ i = Len(keyServers)
    /\ begin = 0
    /\ keyValueFutures = <<>>
    /\ arrived = {}
    /\ dbSize = 0
    /\ storageServerInterfaces = <<>>
    /\ estimatedBytes = <<>>
    /\ acc = NoAcc

\* more answers of waitMetrics: one byte more from every server, or nothing
\* from the first server and one byte more from the second
StorageMetricsRepliesOfDataConsistency(n, bytes) ==
    { [k \in 1..n |-> bytes + 1],
      [k \in 1..n |-> IF k = 1 THEN -1 ELSE IF k = 2 THEN bytes + 1 ELSE bytes] }

DataConsistencyNext ==
    \/ CheckDataConsistency
    \/ /\ pc = "getStorageSizeEstimate"
       /\ \E replies \in StorageMetricsRepliesOfDataConsistency(
                              Len(storageServerInterfaces),
                              StorageMetricsBytes(range.begin, range.end)) :
               GetStorageSizeEstimate(replies, FALSE)
    \/ GetAllowance

DataConsistencySpec == DataConsistencyInit /\ [][DataConsistencyNext]_vars

----------------------------------------------------------------------------
(* The end of the read loop of one shard, run alone: the last page of the   *)
(* shard, which holds no row, has been compared and the client waits for    *)
(* its allowance; the rows of the pages before it are all in the sample.    *)

ShardSizeInit ==
    /\ clientCount = ClientCount
    /\ suspended = <<>>
    /\ clientId = 0
    /\ distributed = FALSE
    /\ indefinite = FALSE
    /\ shardSampleFactor = 1
    /\ shuffleShards = FALSE
    /\ sharedRandomNumber = uint32(0)
    /\ rateLimit = 1
    /\ examined = <<>>
    /\ diffed = <<>>
    /\ performQuiescentChecks \in BOOLEAN
    /\ teamMap \in {tm \in TeamMaps : \A k \in DOMAIN tm : Len(tm[k].src) = storageTeamSize}
    /\ success = TRUE
    /\ repetitions = 0
    /\ pc = "getAllowance"
    /\ err = "none"
    /\ emitted = <<>>
    /\ runs = 1
    /\ hasUndesirableServers = FALSE
    /\ keyServers = keyServersShards
    /\ limitKeyServers = 0
    /\ proxyInfo = 0
    /\ keyServerLocationFutures = <<>>
    /\ keyServersInsertedForThisIteration = FALSE
    \* the one shard: all the keys, or the keys of the key-servers map
    /\ keyLocations \in
          { <<[key |-> allKeysBegin, value |-> Team(FullTeam, <<>>)],
              [key |-> allKeysEnd, value |-> Team(FullTeam, <<>>)]>>,
            <<[key |-> keyServersKeysBegin, value |-> Team(FullTeam, <<>>)],
              [key |-> keyServersKeysEnd, value |-> Team(FullTeam, <<>>)]>> }
    /\ beginKey = keyServersKeysEnd
    /\ i = 0
    /\ begin = keyLocations[2].key - 1
    /\ keyValueFutures = [j \in 1..TeamSize |-> [present |-> TRUE, data |-> <<>>, more |-> FALSE]]
    /\ arrived = 1..TeamSize
    /\ dbSize \in 0..1
    /\ storageServerInterfaces = FullTeam
    \* the shard holds n rows, each of the sampled size v
    /\ \E n \in {0, 1, 5, 6, 30, 31}, v \in {1, 3, 40} :
          acc = SampleRows(NoAcc, [k \in 1..n |-> [key |-> 2 * k, value |-> v]],
                           1, getShardSizeBounds(dbSize))
    /\ estimatedBytes \in {<<>>, [j \in 1..TeamSize |-> acc.sampledBytes]}

ShardSizeNext == GetAllowance

ShardSizeSpec == ShardSizeInit /\ [][ShardSizeNext]_vars

\* The comparison of one page alone: the replies of the team of the one shard
\* have arrived; the first is the reference, the second the current reply with
\* any rows in key order, the others repeat the reference.
AlignInit ==
    /\ clientCount = ClientCount
    /\ suspended = <<>>
    /\ clientId = 0
    /\ distributed = FALSE
    /\ indefinite = FALSE
    /\ shardSampleFactor = 1
    /\ shuffleShards = FALSE
    /\ sharedRandomNumber = uint32(0)
    /\ rateLimit \in 0..1
    /\ examined = <<>>
    /\ diffed = <<>>
    /\ performQuiescentChecks = FALSE
    /\ teamMap \in {tm \in TeamMaps : \A k \in DOMAIN tm : Len(tm[k].src) = storageTeamSize}
    /\ success = TRUE
    /\ repetitions = 0
    /\ pc = "waitKeyValues"
    /\ err = "none"
    /\ emitted = <<>>
    /\ runs = 1
    /\ hasUndesirableServers = FALSE
    /\ keyServers = keyServersShards
    /\ limitKeyServers = 0
    /\ proxyInfo = 0
    /\ keyServerLocationFutures = <<>>
    /\ keyServersInsertedForThisIteration = FALSE
    /\ keyLocations = <<[key |-> allKeysBegin, value |-> Team(FullTeam, <<>>)],
                        [key |-> allKeysEnd, value |-> Team(FullTeam, <<>>)]>>
    /\ beginKey = keyServersKeysEnd
    /\ i = 0
    /\ begin = allKeysBegin
    /\ \E current, reference \in
              {rows \in UNION {[1..n -> [key : 2..4, value : 0..1]] : n \in 0..3} :
                  \A k \in 1..(Len(rows) - 1) : rows[k].key < rows[k + 1].key},
          more \in BOOLEAN :
          keyValueFutures =
              [j \in 1..TeamSize |->
                  IF j = 2
                  THEN [present |-> TRUE, data |-> current, more |-> more]
                  ELSE [present |-> TRUE, data |-> reference, more |-> FALSE]]
    /\ arrived = 1..TeamSize
    /\ dbSize = 0
    /\ storageServerInterfaces = FullTeam
    /\ acc = NoAcc
    /\ estimatedBytes = <<>>

AlignNext == KeyValuesAll

AlignSpec == AlignInit /\ [][AlignNext]_vars

\* The two loops that read in pages, getKeyLocations and the read loop of
\* checkDataConsistency, with storage servers that reply with their rows or do
\* not reply, and without errors of getVersion.
PagingInit ==
    /\ clientCount = ClientCount
    /\ suspended = <<>>
    /\ clientId = 0
    /\ distributed = FALSE
    /\ indefinite = FALSE
    /\ shardSampleFactor = 1
    /\ shuffleShards = FALSE
    /\ sharedRandomNumber = uint32(0)
    /\ rateLimit = 0
    /\ examined = <<>>
    /\ diffed = <<>>
    /\ performQuiescentChecks \in BOOLEAN
    /\ teamMap \in TeamMaps
    /\ success = TRUE
    /\ repetitions = 0
    /\ pc = "getKeyLocations"
    /\ err = "none"
    /\ emitted = <<>>
    /\ runs = 1
    /\ hasUndesirableServers = FALSE
    /\ keyServers = keyServersShards
    /\ limitKeyServers = 0
    /\ proxyInfo = 0
    /\ keyServerLocationFutures = <<>>
    /\ keyServersInsertedForThisIteration = FALSE
    /\ keyLocations = <<>>
    /\ beginKey = 0
    /\ i = 0
    /\ begin = 0
    /\ keyValueFutures = <<>>
    /\ arrived = {}
    /\ dbSize = 0
    /\ storageServerInterfaces = <<>>
    /\ estimatedBytes = <<>>
    /\ acc = NoAcc

PagingNext ==
    \/ GetKeyLocationsBegin
    \/ KeyLocationsRequest
    \/ \E j \in 1..(TeamSize + 1) : \E kind \in {"absent", "good"} : KeyLocationsReply(j, kind)
    \/ KeyLocationsAll
    \/ CheckDataConsistencyBegin
    \/ \E size \in 0..1 : GetDatabaseSize(size)
    \/ ShardBegin
    \/ /\ pc = "getServerList"
       /\ GetServerList([k \in 1..Len(storageServers) |-> TRUE])
    \/ /\ pc = "getStorageSizeEstimate"
       /\ \E replies \in StorageMetricsReplies(Len(storageServerInterfaces),
                                               StorageMetricsBytes(range.begin, range.end)) :
               GetStorageSizeEstimate(replies, FALSE)
    \/ KeyValuesRequest
    \/ \E j \in 1..(TeamSize + 1) : \E kind \in {"absent", "good"} : KeyValuesReply(j, kind)
    \/ KeyValuesAll

\* every wait of the two loops ends: a reply arrives or its replica is taken
\* as failed after two seconds
PagingSpec == PagingInit /\ [][PagingNext]_vars /\ WF_vars(PagingNext)

----------------------------------------------------------------------------
(* The quiescent checks of runCheck, run alone by the first client of a     *)
(* quiescent run, from the state in which the configuration has been read.  *)

QuiescentInit ==
    /\ clientCount = ClientCount
    /\ suspended = <<>>
    /\ clientId = 0
    /\ distributed \in BOOLEAN
    /\ indefinite \in BOOLEAN
    /\ shardSampleFactor = 1
    /\ shuffleShards = FALSE
    /\ sharedRandomNumber = uint32(0)
    /\ rateLimit = 0
    /\ examined = <<>>
    /\ diffed = <<>>
    /\ performQuiescentChecks = TRUE
    /\ teamMap \in TeamMaps
    /\ \E tooMany \in BOOLEAN :
          LET st == IF tooMany
                    THEN testFailure(TraceEvent([success |-> TRUE, events |-> <<>>],
                                                "ConsistencyCheck_TooManyConfigOptions"),
                                     "Read too many configuration options")
                    ELSE [success |-> TRUE, events |-> <<>>]
          IN success = st.success /\ emitted = st.events
    /\ repetitions = 0
    /\ pc = "checkForUndesirableServers"
    /\ err = "none"
    /\ runs = 1
    /\ hasUndesirableServers = FALSE
    /\ keyServers = <<>>
    /\ limitKeyServers = 0
    /\ proxyInfo = 0
    /\ keyServerLocationFutures = <<>>
    /\ keyServersInsertedForThisIteration = FALSE
    /\ keyLocations = <<>>
    /\ beginKey = 0
    /\ i = 0
    /\ begin = 0
    /\ keyValueFutures = <<>>
    /\ arrived = {}
    /\ dbSize = 0
    /\ storageServerInterfaces = <<>>
    /\ estimatedBytes = <<>>
    /\ acc = NoAcc

QuiescentNext ==
    \/ QuiescentChecks
    \/ \E e \in Thrown : ThrowInRunCheck(e)

QuiescentSpec == QuiescentInit /\ [][QuiescentNext]_vars

----------------------------------------------------------------------------
(* The clients of a distributed run, run together.  Every client has its    *)
(* own workload object; the client that is at a step holds the variables of *)
(* the model, the others are suspended at a wait.  Each client is at the    *)
(* end of the read loop of the first shard whose data it compares, if there *)
(* is one, and at the head of its loop over the shards otherwise.           *)

\* the fields and the locals of the workload object of the client at a step
ClientState ==
    [clientId |-> clientId,
     distributed |-> distributed,
     indefinite |-> indefinite,
     shardSampleFactor |-> shardSampleFactor,
     shuffleShards |-> shuffleShards,
     sharedRandomNumber |-> sharedRandomNumber,
     rateLimit |-> rateLimit,
     performQuiescentChecks |-> performQuiescentChecks,
     success |-> success,
     repetitions |-> repetitions,
     pc |-> pc,
     err |-> err,
     emitted |-> emitted,
     runs |-> runs,
     hasUndesirableServers |-> hasUndesirableServers,
     keyServers |-> keyServers,
     limitKeyServers |-> limitKeyServers,
     proxyInfo |-> proxyInfo,
     keyServerLocationFutures |-> keyServerLocationFutures,
     keyServersInsertedForThisIteration |-> keyServersInsertedForThisIteration,
     keyLocations |-> keyLocations,
     beginKey |-> beginKey,
     i |-> i,
     begin |-> begin,
     keyValueFutures |-> keyValueFutures,
     arrived |-> arrived,
     dbSize |-> dbSize,
     storageServerInterfaces |-> storageServerInterfaces,
     estimatedBytes |-> estimatedBytes,
     acc |-> acc]

\* a resumption in which success is one value that all the clients share
SwitchWithSharedSuccess(d) ==
    /\ d \in DOMAIN suspended
    /\ suspended' = [c \in ((DOMAIN suspended) \ {d}) \cup {clientId} |->
                        IF c = clientId THEN ClientState ELSE suspended[c]]
    /\ clientId' = suspended[d].clientId
    /\ distributed' = suspended[d].distributed
    /\ indefinite' = suspended[d].indefinite
    /\ shardSampleFactor' = suspended[d].shardSampleFactor
    /\ shuffleShards' = suspended[d].shuffleShards
    /\ sharedRandomNumber' = suspended[d].sharedRandomNumber
    /\ rateLimit' = suspended[d].rateLimit
    /\ performQuiescentChecks' = suspended[d].performQuiescentChecks
    /\ success' = success
    /\ repetitions' = suspended[d].repetitions
    /\ pc' = suspended[d].pc
    /\ err' = suspended[d].err
    /\ emitted' = suspended[d].emitted
    /\ runs' = suspended[d].runs
    /\ hasUndesirableServers' = suspended[d].hasUndesirableServers
    /\ keyServers' = suspended[d].keyServers
    /\ limitKeyServers' = suspended[d].limitKeyServers
    /\ proxyInfo' = suspended[d].proxyInfo
    /\ keyServerLocationFutures' = suspended[d].keyServerLocationFutures
    /\ keyServersInsertedForThisIteration' = suspended[d].keyServersInsertedForThisIteration
    /\ keyLocations' = suspended[d].keyLocations
    /\ beginKey' = suspended[d].beginKey
    /\ i' = suspended[d].i
    /\ begin' = suspended[d].begin
    /\ keyValueFutures' = suspended[d].keyValueFutures
    /\ arrived' = suspended[d].arrived
    /\ dbSize' = suspended[d].dbSize
    /\ storageServerInterfaces' = suspended[d].storageServerInterfaces
    /\ estimatedBytes' = suspended[d].estimatedBytes
    /\ acc' = suspended[d].acc
    /\ UNCHANGED <<clientCount, teamMap, loopVars>>

\* the client at a step is suspended at its wait and client d is resumed
Switch(d) ==
    /\ d \in DOMAIN suspended
    /\ suspended' = [c \in ((DOMAIN suspended) \ {d}) \cup {clientId} |->
                        IF c = clientId THEN ClientState ELSE suspended[c]]
    /\ clientId' = suspended[d].clientId
    /\ distributed' = suspended[d].distributed
    /\ indefinite' = suspended[d].indefinite
    /\ shardSampleFactor' = suspended[d].shardSampleFactor
    /\ shuffleShards' = suspended[d].shuffleShards
    /\ sharedRandomNumber' = suspended[d].sharedRandomNumber
    /\ rateLimit' = suspended[d].rateLimit
    /\ performQuiescentChecks' = suspended[d].performQuiescentChecks
    /\ success' = suspended[d].success
    /\ repetitions' = suspended[d].repetitions
    /\ pc' = suspended[d].pc
    /\ err' = suspended[d].err
    /\ emitted' = suspended[d].emitted
    /\ runs' = suspended[d].runs
    /\ hasUndesirableServers' = suspended[d].hasUndesirableServers
    /\ keyServers' = suspended[d].keyServers
    /\ limitKeyServers' = suspended[d].limitKeyServers
    /\ proxyInfo' = suspended[d].proxyInfo
    /\ keyServerLocationFutures' = suspended[d].keyServerLocationFutures
    /\ keyServersInsertedForThisIteration' = suspended[d].keyServersInsertedForThisIteration
    /\ keyLocations' = suspended[d].keyLocations
    /\ beginKey' = suspended[d].beginKey
    /\ i' = suspended[d].i
    /\ begin' = suspended[d].begin
    /\ keyValueFutures' = suspended[d].keyValueFutures
    /\ arrived' = suspended[d].arrived
    /\ dbSize' = suspended[d].dbSize
    /\ storageServerInterfaces' = suspended[d].storageServerInterfaces
    /\ estimatedBytes' = suspended[d].estimatedBytes
    /\ acc' = suspended[d].acc
    /\ UNCHANGED <<clientCount, teamMap, loopVars>>

\* client c of a run over the shards locations: the page of its shard that
\* holds the last rows has been compared, n rows of sampled size 3 have been
\* sampled and the client waits for its allowance
ClientAt(c, quiescent, locations, n) ==
    LET first == c * 2
        reads == first < Len(locations) - 1
        a == SampleRows(NoAcc, [k \in 1..n |-> [key |-> 2 * k, value |-> 3]],
                        1, getShardSizeBounds(1))
    IN [clientId |-> c, distributed |-> TRUE, indefinite |-> FALSE, shardSampleFactor |-> 1,
        shuffleShards |-> FALSE, sharedRandomNumber |-> uint32(0), rateLimit |-> 1,
        performQuiescentChecks |-> quiescent, success |-> TRUE, repetitions |-> 0,
        pc |-> IF reads THEN "getAllowance" ELSE "shard",
        err |-> "none", emitted |-> <<>>, runs |-> 1, hasUndesirableServers |-> FALSE,
        keyServers |-> keyServersShards, limitKeyServers |-> 0, proxyInfo |-> 0,
        keyServerLocationFutures |-> <<>>, keyServersInsertedForThisIteration |-> FALSE,
        keyLocations |-> locations, beginKey |-> keyServersKeysEnd,
        i |-> first,
        begin |-> IF reads THEN locations[first + 2].key - 1 ELSE 0,
        keyValueFutures |-> IF reads
                            THEN [j \in 1..TeamSize |->
                                     [present |-> TRUE, data |-> <<>>, more |-> FALSE]]
                            ELSE <<>>,
        arrived |-> IF reads THEN 1..TeamSize ELSE {},
        dbSize |-> 1,
        storageServerInterfaces |-> IF reads THEN FullTeam ELSE <<>>,
        estimatedBytes |-> IF reads THEN [j \in 1..TeamSize |-> a.sampledBytes] ELSE <<>>,
        acc |-> IF reads THEN a ELSE NoAcc]

ClientsInit ==
    /\ clientCount = ClientCount
    /\ examined = <<>>
    /\ diffed = <<>>
    /\ teamMap \in TeamMaps
    /\ \E quiescent \in BOOLEAN, rows \in [0..(ClientCount - 1) -> {6, 31}] :
          LET client == [c \in 0..(ClientCount - 1) |->
                            ClientAt(c, quiescent, KeyLocationsOf(teamMap), rows[c])]
          IN /\ suspended = [c \in 1..(ClientCount - 1) |-> client[c]]
             /\ clientId = client[0].clientId
             /\ distributed = client[0].distributed
             /\ indefinite = client[0].indefinite
             /\ shardSampleFactor = client[0].shardSampleFactor
             /\ shuffleShards = client[0].shuffleShards
             /\ sharedRandomNumber = client[0].sharedRandomNumber
             /\ rateLimit = client[0].rateLimit
             /\ performQuiescentChecks = client[0].performQuiescentChecks
             /\ success = client[0].success
             /\ repetitions = client[0].repetitions
             /\ pc = client[0].pc
             /\ err = client[0].err
             /\ emitted = client[0].emitted
             /\ runs = client[0].runs
             /\ hasUndesirableServers = client[0].hasUndesirableServers
             /\ keyServers = client[0].keyServers
             /\ limitKeyServers = client[0].limitKeyServers
             /\ proxyInfo = client[0].proxyInfo
             /\ keyServerLocationFutures = client[0].keyServerLocationFutures
             /\ keyServersInsertedForThisIteration = client[0].keyServersInsertedForThisIteration
             /\ keyLocations = client[0].keyLocations
             /\ beginKey = client[0].beginKey
             /\ i = client[0].i
             /\ begin = client[0].begin
             /\ keyValueFutures = client[0].keyValueFutures
             /\ arrived = client[0].arrived
             /\ dbSize = client[0].dbSize
             /\ storageServerInterfaces = client[0].storageServerInterfaces
             /\ estimatedBytes = client[0].estimatedBytes
             /\ acc = client[0].acc

ClientsNext ==
    \/ GetAllowance
    \/ ShardBegin
    \/ \E d \in 0..(ClientCount - 1) : Switch(d)

ClientsSpec == ClientsInit /\ [][ClientsNext]_vars

----------------------------------------------------------------------------
(* Properties *)

\* check() returns success
check == success

\* C1: success is true initially; once false it is never true again, in this
\* iteration or a later one, so check() returns false from then on; a step
\* changes success only by recording a failure (testFailure), and every
\* recorded failure leaves success false.
C1_SuccessIsStickyFalse ==
    /\ success = TRUE
    /\ [][/\ ~success => ~success'
          /\ ~check => ~check'
          /\ success' # success => Len(Failures(emitted')) > 0
          /\ Len(Failures(emitted')) > 0 => ~success']_vars

\* a failure was recorded in an earlier iteration, and a later one is reading
\* the pages of a shard
C1_Witness ==
    /\ ~success
    /\ repetitions >= 1
    /\ pc = "waitKeyValues"
    /\ waitForAll(keyValueFutures)

\* the replies of a page: the places of the present replies, of the absent
\* ones, the first present reply (the reference) and the present replies that
\* differ from it in their rows or in their more flag
PresentReplies(futures) == {j \in DOMAIN futures : futures[j].present}
AbsentReplies(futures) == (DOMAIN futures) \ PresentReplies(futures)
Lowest(S) == CHOOSE j \in S : \A k \in S : j <= k
DifferingReplies(futures) ==
    {j \in PresentReplies(futures) :
        \/ futures[j].data # futures[Lowest(PresentReplies(futures))].data
        \/ futures[j].more # futures[Lowest(PresentReplies(futures))].more}
\* an absent reply stands before every reply that differs
AbsentBeforeDiffering(futures) ==
    \E a \in AbsentReplies(futures) : \A d \in DifferingReplies(futures) : a < d
\* a reply that differs stands before every absent reply
DifferingBeforeAbsent(futures) ==
    \E d \in DifferingReplies(futures) : \A a \in AbsentReplies(futures) : d < a
EventsNamed(evs, name) == SelectSeq(evs, LAMBDA e : e.name = name)

\* the replies of a page of a shard are all there: the next step reads them
DataPageRead == pc = "waitKeyValues" /\ waitForAll(keyValueFutures)
\* the step left checkDataConsistency: nothing more is read
DataConsistencyLeft == pc' = "finished" /\ keyValueFutures' = <<>> /\ keyLocations' = <<>>

\* C2, as it is written: on every page of a shard, a present reply that
\* differs from the first present reply in rows or in more makes one
\* ConsistencyCheck_DataInconsistent event, success false and the return of
\* checkDataConsistency; and a page after which the read loop goes on had only
\* present replies equal to the reference.
C2_Original ==
    [][DataPageRead =>
         /\ DifferingReplies(keyValueFutures) # {} =>
               /\ Len(EventsNamed(emitted', "ConsistencyCheck_DataInconsistent")) = 1
               /\ ~success'
               /\ DataConsistencyLeft
         /\ pc' \in {"getVersionOfKeyValues", "shard"} =>
               DifferingReplies(keyValueFutures) = {}]_vars

\* C2, amended: a present reply that differs from the reference makes success
\* false and checkDataConsistency return; the failure is one
\* ConsistencyCheck_DataInconsistent event, unless the run is quiescent, the
\* shard is not relocating and an absent reply stands before the first reply
\* that differs: then it is 'Storage server unavailable' and no
\* ConsistencyCheck_DataInconsistent event.  A page after which the read loop
\* goes on had only present replies equal to the reference.
C2_DifferenceFailsThePage ==
    [][DataPageRead =>
         /\ DifferingReplies(keyValueFutures) # {} =>
               /\ ~success'
               /\ DataConsistencyLeft
               /\ IF /\ performQuiescentChecks /\ ~isRelocating
                     /\ AbsentBeforeDiffering(keyValueFutures)
                  THEN /\ Reasons(emitted') = {"Storage server unavailable"}
                       /\ EventsNamed(emitted', "ConsistencyCheck_DataInconsistent") = <<>>
                  ELSE /\ Len(EventsNamed(emitted', "ConsistencyCheck_DataInconsistent")) = 1
                       /\ Reasons(emitted') = {"Data inconsistent"}
         /\ pc' \in {"getVersionOfKeyValues", "shard"} =>
               DifferingReplies(keyValueFutures) = {}]_vars

\* checkDataConsistency returned on a page with a reply that differed
C2_Witness ==
    /\ pc = "finished"
    /\ ~success
    /\ Len(EventsNamed(emitted, "ConsistencyCheck_DataInconsistent")) = 1
    /\ Reasons(emitted) = {"Data inconsistent"}

\* C3, as it is written: an absent reply of a page of a shard records 'Storage
\* server unavailable' and makes checkDataConsistency return exactly when the
\* shard is not relocating and the run is quiescent; otherwise the absence
\* records no failure.
C3_Original ==
    [][DataPageRead /\ AbsentReplies(keyValueFutures) # {} =>
         (/\ "Storage server unavailable" \in Reasons(emitted')
          /\ ~success'
          /\ DataConsistencyLeft)
           <=> (~isRelocating /\ performQuiescentChecks)]_vars

\* C3, amended: an absent reply records 'Storage server unavailable' and makes
\* checkDataConsistency return exactly when the shard is not relocating, the
\* run is quiescent and no reply that differs from the reference stands before
\* the absent one (then the page fails as 'Data inconsistent' first); in every
\* other case the absence records no failure, and the page is compared with
\* the replies that are present.
C3_AbsentReplyFailsWhenQuiescent ==
    [][DataPageRead /\ AbsentReplies(keyValueFutures) # {} =>
         /\ "Storage server unavailable" \in Reasons(emitted')
               <=> /\ ~isRelocating /\ performQuiescentChecks
                   /\ ~DifferingBeforeAbsent(keyValueFutures)
         /\ "Storage server unavailable" \in Reasons(emitted') =>
               ~success' /\ DataConsistencyLeft
         /\ (isRelocating \/ ~performQuiescentChecks) =>
               "Data inconsistent" \in Reasons(emitted')
                   <=> DifferingReplies(keyValueFutures) # {}]_vars

\* checkDataConsistency returned on a page with an absent reply
C3_Witness ==
    /\ pc = "finished"
    /\ ~success
    /\ Names(emitted) = {"ConsistencyCheck_StorageServerUnavailable", "TestFailure"}
    /\ Reasons(emitted) = {"Storage server unavailable"}

\* the replies of a page of the key-servers map are all there: the next step
\* reads them
KeyLocationsPageRead == pc = "waitKeyLocations" /\ waitForAll(keyValueFutures)
\* the step made getKeyLocations return false: keyLocationPromise is not set,
\* checkDataConsistency is not started
KeyLocationsReturnedFalse == pc' = "finished" /\ keyLocations' = <<>>
\* the step appended the rows of the page
KeyLocationsPageAppended == pc' \in {"getVersionOfKeyLocations", "checkDataConsistency"}

\* C4, as it is written: quiescent or not, a present reply of a page of the
\* key-servers map that differs from the first present reply records 'Key
\* servers inconsistent' and makes getKeyLocations return false, so that
\* checkDataConsistency is not run; a page whose rows are appended had only
\* present replies equal to the reference.
C4_Original ==
    [][KeyLocationsPageRead =>
         /\ DifferingReplies(keyValueFutures) # {} =>
               /\ "Key servers inconsistent" \in Reasons(emitted')
               /\ ~success'
               /\ KeyLocationsReturnedFalse
         /\ KeyLocationsPageAppended => DifferingReplies(keyValueFutures) = {}]_vars

\* C4, amended: a present reply that differs from the reference makes success
\* false and getKeyLocations return false; the failure is 'Key servers
\* inconsistent', unless the run is quiescent and an absent reply stands before
\* the first reply that differs: then it is 'Key server unavailable'.  A page
\* whose rows are appended had only present replies equal to the reference.
C4_DifferenceFailsKeyLocations ==
    [][KeyLocationsPageRead =>
         /\ DifferingReplies(keyValueFutures) # {} =>
               /\ ~success'
               /\ KeyLocationsReturnedFalse
               /\ IF performQuiescentChecks /\ AbsentBeforeDiffering(keyValueFutures)
                  THEN Reasons(emitted') = {"Key server unavailable"}
                  ELSE /\ Reasons(emitted') = {"Key servers inconsistent"}
                       /\ Len(EventsNamed(emitted', "ConsistencyCheck_InconsistentKeyServers")) = 1
         /\ KeyLocationsPageAppended => DifferingReplies(keyValueFutures) = {}]_vars

\* getKeyLocations returned false on a page with a reply that differed
C4_Witness ==
    /\ pc = "finished"
    /\ ~success
    /\ Reasons(emitted) = {"Key servers inconsistent"}
    /\ Len(EventsNamed(emitted, "ConsistencyCheck_InconsistentKeyServers")) = 1

\* the first present reply of the page, and where the next page begins when
\* the rows of the page are taken from it
ReferenceReply == keyValueFutures[Lowest(PresentReplies(keyValueFutures))]
BeginKeyAfterReference ==
    IF ~ReferenceReply.more
    THEN keyServers[i + 1].first.end
    ELSE ReferenceReply.data[Len(ReferenceReply.data)].key

\* C5, as it is written: an absent reply of a page of the key-servers map
\* records 'Key server unavailable' and makes getKeyLocations return false
\* exactly when the run is quiescent; in a non-quiescent run it records no
\* failure, and if some replica replied the page is accepted with the first
\* present reply as reference.
C5_Original ==
    [][KeyLocationsPageRead /\ AbsentReplies(keyValueFutures) # {} =>
         /\ ("Key server unavailable" \in Reasons(emitted') /\ KeyLocationsReturnedFalse)
               <=> performQuiescentChecks
         /\ ~performQuiescentChecks /\ PresentReplies(keyValueFutures) # {} =>
               /\ Failures(emitted') = <<>>
               /\ KeyLocationsPageAppended
               /\ beginKey' = BeginKeyAfterReference]_vars

\* C5, amended: an absent reply records 'Key server unavailable' and makes
\* getKeyLocations return false exactly when the run is quiescent and no reply
\* that differs from the reference stands before the absent one (then the page
\* fails as 'Key servers inconsistent' first).  In a non-quiescent run the
\* absence records no failure; if some replica replied, the page is compared
\* with the first present reply as reference: it fails as 'Key servers
\* inconsistent' when a present reply differs, and otherwise its rows are
\* those of the reference (accepted, unless the ASSERTs on the decoded rows
\* fail).
C5_AbsentReplyFailsWhenQuiescent ==
    [][KeyLocationsPageRead /\ AbsentReplies(keyValueFutures) # {} =>
         /\ "Key server unavailable" \in Reasons(emitted')
               <=> performQuiescentChecks /\ ~DifferingBeforeAbsent(keyValueFutures)
         /\ "Key server unavailable" \in Reasons(emitted') =>
               ~success' /\ KeyLocationsReturnedFalse
         /\ ~performQuiescentChecks /\ PresentReplies(keyValueFutures) # {} =>
               IF DifferingReplies(keyValueFutures) # {}
               THEN Reasons(emitted') = {"Key servers inconsistent"}
               ELSE /\ Failures(emitted') = <<>>
                    /\ success' = success
                    /\ \/ /\ KeyLocationsPageAppended
                          /\ beginKey' = BeginKeyAfterReference
                       \/ pc' = "catch" /\ err' = "internal_error"]_vars

\* getKeyLocations of a quiescent run returned false on a page with an absent
\* reply
C5_Witness ==
    /\ performQuiescentChecks
    /\ pc = "finished"
    /\ ~success
    /\ Names(emitted) = {"ConsistencyCheck_KeyServerUnavailable", "TestFailure"}
    /\ Reasons(emitted) = {"Key server unavailable"}

\* C6, as it is written: in a non-quiescent run a page of the key-servers map
\* whose replies are all absent is asked for again, from the same beginKey, in
\* the same iteration, and no failure is recorded.
C6_AllAbsentRetriesThePage ==
    [][KeyLocationsPageRead /\ ~performQuiescentChecks
         /\ PresentReplies(keyValueFutures) = {} =>
           /\ pc' = "getVersionOfKeyLocations"
           /\ beginKey' = beginKey
           /\ i' = i
           /\ keyLocations' = keyLocations
           /\ success' = success
           /\ Failures(emitted') = <<>>]_vars

\* C7: an error that left a component of runCheck is at the catch with the
\* rest of the iteration dropped.  For transaction_too_old, future_version,
\* wrong_shard_server, all_alternatives_failed and server_request_queue_full
\* the catch emits ConsistencyCheck_Retry and leaves success as it is; for any
\* other error it records exactly one failure.  Either way runCheck ends as
\* usual (ConsistencyCheck_FinishedCheck), and with indefinite set _start goes
\* on to its delay and the next runCheck.
C7_CatchOfRunCheck ==
    [][/\ pc' = "catch" /\ pc # "catch" =>
            /\ err' # "none"
            /\ keyServers' = <<>> /\ keyLocations' = <<>> /\ keyValueFutures' = <<>>
       /\ pc = "catch" =>
            /\ pc' = "finished"
            /\ IF err \in {"transaction_too_old", "future_version", "wrong_shard_server",
                           "all_alternatives_failed", "server_request_queue_full"}
               THEN /\ emitted' = <<[name |-> "ConsistencyCheck_Retry", reason |-> ""]>>
                    /\ success' = success
               ELSE /\ Len(emitted') = 1
                    /\ Len(Failures(emitted')) = 1
                    /\ ~success'
       /\ pc = "finished" =>
            /\ emitted' = <<[name |-> "ConsistencyCheck_FinishedCheck", reason |-> ""]>>
            /\ pc' = IF indefinite THEN "delay" ELSE "done"
       /\ pc = "delay" => pc' = "ready"
       /\ pc = "ready" => runs' = runs + 1 /\ pc' \in {"readConfig", "finished"}]_vars

\* the catch of an indefinite run took an error for transient, and another
\* one, in a later iteration, for a failure
C7_Witness ==
    /\ indefinite
    /\ pc = "finished"
    /\ repetitions >= 1
    /\ emitted = <<[name |-> "TestFailure", reason |-> "Error"]>>

\* the failures that only a quiescent run records
QuiescentOnlyReasons ==
    {"Storage server unavailable", "Storage server has wrong key-value store type",
     "Multiple storage servers have the same address",
     "Non-zero data distribution queue/in-flight size", "Non-zero tlog queue size",
     "Non-zero storage server queue size", "Could not read storage queue size",
     "No storage server on worker", "Extra data stores present on workers",
     "Failed to get data stores", "Cluster has machine(s) not using requested classes",
     "Worker list incorrect", "Master proxy unavailable", "Key server unavailable",
     "Invalid team size", "/FF/serverList changing in a quiescent database",
     "Error fetching storage metrics", "Storage servers had incorrect sampled estimate",
     "Could not get storage metrics from server",
     "Shard size in quiescent database is too small",
     "Shard size in quiescent database is too large"}

\* C8: quietDatabase is waited for only by the first client of a quiescent
\* run.  When it fails or times out, exactly one failure is recorded,
\* performQuiescentChecks becomes false and _setup still completes.
\* performQuiescentChecks never goes from false to true, and while it is false
\* the client is in none of the topology checks and records none of the
\* failures of the quiescent-only checks.
C8_QuietDatabase ==
    [][/\ pc = "setup" =>
            pc' = IF firstClient /\ performQuiescentChecks THEN "quietDatabase" ELSE "ready"
       /\ pc' = "quietDatabase" => firstClient /\ performQuiescentChecks'
       /\ pc = "quietDatabase" =>
            /\ pc' = "ready"
            /\ \/ /\ emitted' = <<>>
                  /\ performQuiescentChecks'
                  /\ success' = success
               \/ /\ Len(Failures(emitted')) = 1
                  /\ Reasons(emitted') = {"Unable to achieve a quiet database"}
                  /\ ~success'
                  /\ ~performQuiescentChecks'
       /\ ~performQuiescentChecks => ~performQuiescentChecks'
       /\ ~performQuiescentChecks' =>
            /\ pc' \notin QuiescentWaits
            /\ Reasons(emitted') \cap QuiescentOnlyReasons = {}]_vars

\* quietDatabase failed: the first client starts runCheck with
\* performQuiescentChecks false and the one failure recorded
C8_Witness ==
    /\ firstClient
    /\ ~performQuiescentChecks
    /\ ~success
    /\ pc = "ready"
    /\ runs = 0
    /\ Reasons(emitted) = {"Unable to achieve a quiet database"}

\* C9: with indefinite false, runCheck is started once and _start ends with
\* repetitions 0.  With indefinite true _start does not end: after every
\* runCheck, failures or not, repetitions grows by exactly 1, and the delay of
\* _start stands before the next runCheck.
C9_Repetitions ==
    [][/\ ~indefinite =>
            /\ repetitions' = 0
            /\ runs' <= 1
            /\ pc = "finished" => pc' = "done"
       /\ pc' = "done" => ~indefinite /\ runs' = 1 /\ repetitions' = 0
       /\ pc # "done"
       /\ indefinite /\ pc = "finished" => repetitions' = repetitions + 1 /\ pc' = "delay"
       /\ repetitions' # repetitions => pc = "finished" /\ indefinite
       /\ runs' # runs => runs' = runs + 1 /\ pc = "ready" /\ runs = repetitions
       /\ pc' = "ready" /\ pc # "ready" => pc = "delay" \/ runs = 0
       /\ pc = "delay" => pc' = "ready" /\ runs' = runs]_vars

\* an indefinite run is in the delay after a runCheck that recorded a failure
C9_Witness ==
    /\ indefinite
    /\ pc = "delay"
    /\ repetitions = 1
    /\ runs = 1
    /\ ~success

KeyLocationsWaits == {"getKeyLocations", "getVersionOfKeyLocations", "waitKeyLocations"}
DataConsistencyWaits ==
    {"checkDataConsistency", "getDatabaseSize", "shard", "getServerList",
     "getStorageSizeEstimate", "getVersionOfKeyValues", "waitKeyValues"}
ComparisonEvents ==
    {"ConsistencyCheck_DataInconsistent", "ConsistencyCheck_StorageServerUnavailable"}

\* steps of the client: getKeyLocations is entered, checkDataConsistency is
\* entered, the loop of checkDataConsistency goes to another shard, a page of a
\* shard is asked for, the replies of a page are compared
KeyLocationsEntered == pc' \in KeyLocationsWaits /\ pc \notin KeyLocationsWaits
DataConsistencyEntered == pc' \in DataConsistencyWaits /\ pc \notin DataConsistencyWaits
ShardChanged ==
    /\ pc \in DataConsistencyWaits \ {"checkDataConsistency"}
    /\ pc' \in DataConsistencyWaits
    /\ i' # i
PageRequested == pc = "getVersionOfKeyValues" /\ pc' = "waitKeyValues"
PageCompared ==
    \/ /\ pc = "waitKeyValues"
       /\ pc' \in {"getVersionOfKeyValues", "shard", "finished"}
       /\ "ConsistencyCheck_RetryDataConsistency" \notin Names(emitted')
    \/ /\ pc \in DataConsistencyWaits
       /\ Names(emitted') \cap ComparisonEvents # {}

\* C10: getKeyLocations is started only by a getKeyServers that read all its
\* batches without a failure, and checkDataConsistency only by a
\* getKeyLocations that read all its pages without a failure.  In
\* checkDataConsistency the loop goes to another shard only from the end of
\* the body of the shard before, with no page in flight; a page is asked of
\* every replica of the shard, and its replies are compared only when every
\* replica has answered or been found absent.
C10_SequentialAndGated ==
    [][/\ KeyLocationsEntered =>
            (/\ pc = "waitKeyServerLocations"
             /\ arrived = DOMAIN keyServerLocationFutures
             /\ pc' = "getKeyLocations"
             /\ Failures(emitted') = <<>>
             /\ Len(keyServers') > 0
             /\ keyServers'[Len(keyServers')].first.end >= keyServersKeysEnd)
       /\ DataConsistencyEntered =>
            (/\ pc \in KeyLocationsWaits
             /\ (pc = "waitKeyLocations" => arrived = DOMAIN keyValueFutures)
             /\ pc' = "checkDataConsistency"
             /\ Failures(emitted') = <<>>
             /\ beginKey' >= endKey)
       /\ ShardChanged =>
            (/\ pc \in {"getStorageSizeEstimate", "waitKeyValues"}
             /\ pc' = "shard"
             /\ i' > i
             /\ keyValueFutures' = <<>>)
       /\ PageRequested =>
            (/\ DOMAIN keyValueFutures' = 1..Len(storageServerInterfaces)
             /\ arrived' = {})
       /\ PageCompared =>
            (/\ pc = "waitKeyValues"
             /\ arrived = DOMAIN keyValueFutures
             /\ DOMAIN keyValueFutures = 1..Len(storageServerInterfaces))]_vars

\* the first client has every reply of a page of its second shard
C10_Witness ==
    /\ firstClient
    /\ pc = "waitKeyValues"
    /\ i = 1
    /\ Len(keyValueFutures) = TeamSize
    /\ arrived = DOMAIN keyValueFutures
    /\ Len(keyLocations) = Len(shardBegins) + 1

----------------------------------------------------------------------------
(* getKeyServers *)

\* all the replies of a batch of getKeyServers are there
KeyServersBatchRead ==
    pc = "waitKeyServerLocations" /\ waitForAll(keyServerLocationFutures)
AbsentProxies == {p \in DOMAIN keyServerLocationFutures : ~keyServerLocationFutures[p].present}
PresentProxies == {p \in DOMAIN keyServerLocationFutures : keyServerLocationFutures[p].present}

\* C11: in a quiescent run, when all the replies of a batch of getKeyServers are
\* there and the reply of a proxy is absent, the step that reads them records
\* 'Master proxy unavailable' and getKeyServers returns false: runCheck is left
\* with no shard list kept, and neither getKeyLocations nor
\* checkDataConsistency is entered
C11_AbsentProxyFailsKeyServers ==
    [][(KeyServersBatchRead /\ performQuiescentChecks /\ AbsentProxies # {})
         => /\ "Master proxy unavailable" \in Reasons(emitted')
            /\ "ConsistencyCheck_MasterProxyUnavailable" \in Names(emitted')
            /\ ~success'
            /\ pc' = "finished"
            /\ keyServers' = <<>>
            /\ keyLocations' = <<>>]_vars
C11_Witness ==
    /\ pc = "finished"
    /\ performQuiescentChecks
    /\ Reasons(emitted) = {"Master proxy unavailable"}
    /\ ~success

\* the waits of getKeyServers
KeyServersWaits == {"getKeyServers", "getMasterProxies", "waitKeyServerLocations",
                    "delayKeyServers"}
\* the replies of a batch are read and getKeyServers does not return false
KeyServersBatchKept ==
    KeyServersBatchRead /\ ~(performQuiescentChecks /\ AbsentProxies # {})

\* C12: the step that reads the replies of a batch of getKeyServers appends to
\* the shard list the results of the lowest-indexed proxy whose reply is present
\* and nothing of any other reply, equal to it or not; and no step of
\* getKeyServers in a non-quiescent run records a failure or returns false
C12_LowestPresentProxyWins ==
    [][/\ (KeyServersBatchKept /\ PresentProxies # {})
           => keyServers' = keyServers
                              \o keyServerLocationFutures[Lowest(PresentProxies)].results
       /\ (KeyServersBatchKept /\ PresentProxies = {}) => keyServers' = keyServers
       /\ (pc \in KeyServersWaits /\ ~performQuiescentChecks)
           => /\ success' = success
              /\ Failures(emitted') = <<>>
              /\ pc' # "finished"]_vars
\* two proxies answered a batch differently and the results of the first were
\* appended
C12_Witness ==
    /\ pc = "getMasterProxies"
    /\ ~performQuiescentChecks
    /\ PresentProxies = {1, 2}
    /\ keyServerLocationFutures[1].results # keyServerLocationFutures[2].results
    /\ keyServers = keyServerLocationFutures[1].results

\* the proxies-changed notification fires before all the replies are there
ProxiesChangedStep ==
    pc = "waitKeyServerLocations" /\ ~waitForAll(keyServerLocationFutures) /\ pc' # pc
\* the batch is left as it was and the delay is entered
BatchLeftForRetry ==
    /\ keyServers' = keyServers
    /\ begin' = begin
    /\ success' = success
    /\ Failures(emitted') = <<>>
    /\ pc' = "delayKeyServers"
\* after the delay the roster is read again and the same batch is requested
SameBatchAgain ==
    /\ (pc = "delayKeyServers")
       => /\ pc' = "getMasterProxies"
          /\ begin' = begin
          /\ keyServers' = keyServers
          /\ limitKeyServers' = limitKeyServers
    /\ (pc = "getMasterProxies" /\ pc' # "catch")
       => /\ pc' = "waitKeyServerLocations"
          /\ begin' = begin
          /\ keyServers' = keyServers
          /\ limitKeyServers' = limitKeyServers
          /\ arrived' = {}
          /\ DOMAIN keyServerLocationFutures' = 1..proxyInfo'

\* C13 as stated: whenever no proxy returned data for a batch, or the proxies
\* changed before all the replies of the batch, nothing is appended, begin is
\* unchanged, no failure is recorded, and after the delay the same batch is
\* requested again
C13_Original ==
    [][/\ ((KeyServersBatchRead /\ PresentProxies = {}) \/ ProxiesChangedStep)
           => BatchLeftForRetry
       /\ SameBatchAgain]_vars

\* C13: when the proxies changed before all the replies of a batch, or when, in
\* a non-quiescent run, no proxy returned data for the batch, nothing is
\* appended to the shard list, begin is unchanged, no failure is recorded and
\* the 1 s delay is entered; after the delay the roster is read again and the
\* same batch (same begin, same limit) is requested from it
C13_NoDataRetriesTheBatch ==
    [][/\ ((KeyServersBatchRead /\ PresentProxies = {} /\ ~performQuiescentChecks)
             \/ ProxiesChangedStep)
           => BatchLeftForRetry
       /\ SameBatchAgain]_vars
\* the delay before the second batch is asked again, its replies all absent
C13_Witness ==
    /\ pc = "delayKeyServers"
    /\ ~performQuiescentChecks
    /\ keyServers # <<>>
    /\ begin > keyServersKeysBegin
    /\ proxyInfo = 2
    /\ AbsentProxies = {1, 2}

\* the ranges of a shard list are non-empty, in key order, and each begins
\* where the one before it ended
AdjacentRanges(shards) ==
    \A k \in 1..Len(shards) :
        /\ shards[k].first.begin < shards[k].first.end
        /\ k > 1 => shards[k].first.begin = shards[k - 1].first.end
\* getKeyServers is between two batches
KeyServersCollecting == pc \in (KeyServersWaits \ {"getKeyServers"})
\* getKeyServers returned true: its shard list is in the hands of getKeyLocations
KeyServersCollected == pc \in ({"getKeyLocations"} \cup KeyLocationsWaits)

\* C14: while getKeyServers collects, whatever batches were retried and
\* whatever rosters answered, the shard list is a run of non-empty adjacent
\* ranges from keyServersKeys.begin to begin; once getKeyServers has returned
\* true the list is such a run from keyServersKeys.begin to keyServersKeys.end
\* or beyond
C14_KeyServersCoverKeyServersKeys ==
    /\ KeyServersCollecting
       => /\ AdjacentRanges(keyServers)
          /\ keyServers = <<>> => begin = keyServersKeysBegin
          /\ keyServers # <<>>
             => /\ keyServers[1].first.begin = keyServersKeysBegin
                /\ keyServers[Len(keyServers)].first.end = begin
    /\ KeyServersCollected
       => /\ keyServers # <<>>
          /\ AdjacentRanges(keyServers)
          /\ keyServers[1].first.begin = keyServersKeysBegin
          /\ keyServers[Len(keyServers)].first.end >= keyServersKeysEnd
\* getKeyServers returned the two shards of the key-servers map, one per batch
C14_Witness ==
    /\ pc = "getKeyLocations"
    /\ ~performQuiescentChecks
    /\ Len(keyServers) = 2

----------------------------------------------------------------------------
(* getKeyLocations *)

KeysOf(locations) == [k \in DOMAIN locations |-> locations[k].key]
StrictlyIncreasing(keys) == \A k \in 1..(Len(keys) - 1) : keys[k] < keys[k + 1]
\* getKeyLocations returned true: its rows are in the hands of
\* checkDataConsistency
KeyLocationsCollected == pc \in DataConsistencyWaits
\* the replies of the first page are read and its reference reply begins with
\* the row of allKeys.begin
FirstPageHoldsBegin ==
    /\ KeyLocationsPageRead
    /\ beginKey = beginKeyOfAllKeys
    /\ PresentReplies(keyValueFutures) # {}
    /\ ReferenceReply.data # <<>>
    /\ ReferenceReply.data[1].key = beginKeyOfAllKeys

\* the boundary keys of the key-servers map: the begin of every shard, and
\* allKeys.end
BoundaryKeys == shardBegins \o <<allKeysEnd>>

\* C15 as stated: once getKeyLocations has returned true, the keys of
\* keyLocations are strictly increasing, none appended twice and none skipped:
\* they are the boundary keys of the map, from allKeys.begin to allKeys.end
C15_Original ==
    KeyLocationsCollected
       => /\ StrictlyIncreasing(KeysOf(keyLocations))
          /\ KeysOf(keyLocations) = BoundaryKeys
          /\ keyLocations[1].key = allKeysBegin
          /\ keyLocations[Len(keyLocations)].key = allKeysEnd

\* the keys appended so far are strictly increasing and below the key the next
\* page begins at; once getKeyLocations has returned true they are strictly
\* increasing and end with allKeys.end
KeyLocationsInOrder ==
    /\ pc \in {"getVersionOfKeyLocations", "waitKeyLocations"}
       => /\ StrictlyIncreasing(KeysOf(keyLocations))
          /\ keyLocations # <<>>
             => keyLocations[Len(keyLocations)].key < removePrefix(beginKey)
    /\ KeyLocationsCollected
       => /\ keyLocations # <<>>
          /\ StrictlyIncreasing(KeysOf(keyLocations))
          /\ keyLocations[Len(keyLocations)].key = allKeysEnd

\* C15: while getKeyLocations reads, page after page and shard after shard, the
\* keys it has appended are strictly increasing and stay below the key the
\* next page begins at; once it has returned true they are strictly increasing
\* and end with allKeys.end; the first page appends allKeys.begin whenever its
\* reference reply begins with that row, and the first key is never replaced
C15_KeyLocationsPartitionAllKeys ==
    [][/\ KeyLocationsInOrder'
       /\ (FirstPageHoldsBegin /\ KeyLocationsPageAppended)
           => keyLocations'[1].key = allKeysBegin
       /\ (keyLocations # <<>> /\ keyLocations' # <<>>)
           => keyLocations'[1] = keyLocations[1]]_vars
\* getKeyLocations returned the boundaries of the three shards, the first
\* shard of the key-servers map read in two pages
C15_Witness ==
    /\ pc = "checkDataConsistency"
    /\ KeysOf(keyLocations) = BoundaryKeys

----------------------------------------------------------------------------
(* The loop over the shards *)

NumShards == Len(Ranges(keyLocations))
IndicesOf(visits) == [k \in DOMAIN visits |-> visits[k].index]
ShardsOf(visits) == {visits[k].shard : k \in DOMAIN visits}
\* the loop of client c is over
LoopIsOver(c) ==
    /\ c \in RunningClients
    /\ \/ c < clientId
       \/ c = clientId /\ ~(i < NumShards)
\* the step of client c, and the indices below n that it reaches from its
\* first index
StepOf(c) == IF distributed /\ c # 0 THEN clientCount * shardSampleFactor ELSE 1
IndicesFor(c) ==
    {x \in 0..(NumShards - 1) :
        /\ x >= c * (shardSampleFactor + 1)
        /\ (x - c * (shardSampleFactor + 1)) % StepOf(c) = 0}
\* the divisor of the test of the first client
DiffDivisor == (IF distributed THEN clientCount ELSE 1) * shardSampleFactor

\* C16: the k-th iteration of the loop of client c is at index
\* c*(shardSampleFactor+1) + k*increment; when its loop is over the client has
\* been at every such index below the number of shards and at no other; the
\* shards whose data it compared are all the shards it came to if it is not
\* the first client, and those with shard % (effectiveClientCount *
\* shardSampleFactor) = 0 among them if it is
C16_IndicesOfAClient ==
    \A c \in DOMAIN examined :
        /\ \A k \in DOMAIN examined[c] :
              examined[c][k].index = c * (shardSampleFactor + 1) + (k - 1) * StepOf(c)
        /\ LoopIsOver(c) => {examined[c][k].index : k \in DOMAIN examined[c]} = IndicesFor(c)
        /\ diffed[c] = {sh \in ShardsOf(examined[c]) : c # 0 \/ sh % DiffDivisor = 0}
\* two clients over five shards: the second was at the indices 2 and 4, the
\* first compared the data of some of the shards it came to only
C16_Witness ==
    /\ pc = "finished"
    /\ distributed
    /\ clientCount = 2
    /\ shardSampleFactor = 1
    /\ IndicesOf(examined[1]) = <<2, 4>>
    /\ IndicesOf(examined[0]) = <<0, 1, 2, 3, 4>>
    /\ diffed[0] # ShardsOf(examined[0])

\* C17: in a distributed run, no shard has its data compared by two different
\* clients
C17_DiffedShardsAreDisjoint ==
    distributed
       => \A a, b \in DOMAIN diffed : a # b => diffed[a] \cap diffed[b] = {}

\* the shards that some client came to, to size them or to compare their data
VisitedShards == UNION {ShardsOf(examined[c]) : c \in DOMAIN examined}
\* every loop of the run is over
LoopsAreOver == pc = "finished" /\ DOMAIN examined # {}

\* C18: with shardSampleFactor 1, once the loops of all the clients of the run
\* are over every shard has been visited by a client at least, whatever the
\* number of clients and of shards, shuffled or not
C18_EveryShardIsVisited ==
    (LoopsAreOver /\ shardSampleFactor = 1) => VisitedShards = 0..(NumShards - 1)
\* a distributed run of two clients over five shuffled shards is over
C18_Witness ==
    /\ LoopsAreOver
    /\ shardSampleFactor = 1
    /\ distributed
    /\ clientCount = 2
    /\ shuffleShards
    /\ NumShards = 5
    /\ VisitedShards = 0..4

\* C19 as stated: with shardSampleFactor 1, client 0 comes to every shard and
\* compares the data of every shard, distributed or not
C19_Original ==
    (LoopsAreOver /\ shardSampleFactor = 1)
       => /\ ShardsOf(examined[0]) = 0..(NumShards - 1)
          /\ diffed[0] = 0..(NumShards - 1)

\* C19: with shardSampleFactor 1, client 0 takes every index of the shard order
\* in turn, which without shuffleShards is every shard; of the shards it comes
\* to it compares the data of all when the run is not distributed or has one
\* client, and in a distributed run the data of those with shard % clientCount
\* = 0 and of no other
C19_FirstClientVisitsEveryShard ==
    (LoopIsOver(0) /\ shardSampleFactor = 1)
       => /\ IndicesOf(examined[0]) = [k \in 1..NumShards |-> k - 1]
          /\ ~shuffleShards => ShardsOf(examined[0]) = 0..(NumShards - 1)
          /\ diffed[0] = {sh \in ShardsOf(examined[0]) :
                            ~distributed \/ sh % clientCount = 0}
\* the first of two clients of a distributed run came to five shards and
\* compared the data of three
C19_Witness ==
    /\ LoopIsOver(0)
    /\ shardSampleFactor = 1
    /\ distributed
    /\ clientCount = 2
    /\ ~shuffleShards
    /\ IndicesOf(examined[0]) = <<0, 1, 2, 3, 4>>
    /\ diffed[0] = {0, 2, 4}

----------------------------------------------------------------------------
(* checkDataConsistency: the body of the loop over the shards *)

\* the step is the head of the loop for a shard that is there
ShardIsVisited == pc = "shard" /\ i < NumShards
InvalidTeamSizeRecorded == "Invalid team size" \in Reasons(emitted')
ReturnsFalse == pc' = "finished" /\ ~success'

\* C22 as stated: 'Invalid team size' is recorded, and checkDataConsistency
\* returns false, exactly when the client is the first client of a quiescent
\* run, the visited shard is not being moved and its source team has not
\* storageTeamSize servers; the source team of a shard that is being moved is
\* not checked.
C22_Original ==
    [][ShardIsVisited =>
          (InvalidTeamSizeRecorded <=>
             /\ firstClient /\ performQuiescentChecks /\ ~isRelocating
             /\ Len(sourceStorageServers) # storageTeamSize)]_vars

\* C22: 'Invalid team size' is recorded, and checkDataConsistency returns
\* false, exactly when the client is the first client of a quiescent run and
\* the source team of the visited shard has not storageTeamSize servers,
\* whether the shard is being moved or not; it is the one failure of the step,
\* and in every other case the body goes on to read the serverList entries of
\* the shard with nothing recorded.
C22_InvalidTeamSize ==
    [][ShardIsVisited =>
          IF /\ firstClient /\ performQuiescentChecks
             /\ Len(sourceStorageServers) # storageTeamSize
          THEN /\ InvalidTeamSizeRecorded
               /\ Len(Failures(emitted')) = 1
               /\ ReturnsFalse
          ELSE /\ emitted' = <<>>
               /\ success' = success
               /\ pc' = "getServerList"]_vars

\* the first client of a quiescent run has returned false at a short source
\* team, and every shard with a short source team is being moved
C22_Witness ==
    /\ pc = "finished"
    /\ ~success
    /\ "Invalid team size" \in Reasons(emitted)
    /\ \A k \in DOMAIN teamMap :
           Len(teamMap[k].src) # storageTeamSize => Len(teamMap[k].dest) > 0

EstimatorReasons ==
    {"Storage servers had incorrect sampled estimate",
     "Could not get storage metrics from server"}
EstimatorFailures(evs) ==
    SelectSeq(evs, LAMBDA e : e.name = "TestFailure" /\ e.reason \in EstimatorReasons)
\* the accumulators of the shard once the rows of the page at hand are sampled
SampledAcc ==
    LET f == firstValidServerOf(keyValueFutures)
    IN IF pc = "getAllowance" \/ f < 0
       THEN acc
       ELSE SampleRows(acc, keyValueFutures[f].data, 1, getShardSizeBounds(dbSize))
\* the step leaves the read loop of a shard: for the next shard, or with the
\* failure of the size of the shard
ReadLoopLeft ==
    /\ pc \in {"waitKeyValues", "getAllowance"}
    /\ \/ pc' = "shard"
       \/ pc' = "finished" /\ "ConsistencyCheck_InvalidShardSize" \in Names(emitted')
\* the replicas whose estimate is missing or is not the sampled bytes
OffendingEstimates ==
    {j \in DOMAIN estimatedBytes :
        estimatedBytes[j] < 0 \/ estimatedBytes[j] # SampledAcc.sampledBytes}

\* C23: at the end of the read loop of a shard whose data were compared, an
\* estimator failure is recorded if and only if the run is quiescent and the
\* estimate of some replica is negative or is not the recomputed sampledBytes;
\* one failure at most is recorded, that of the first such replica ('Storage
\* servers had incorrect sampled estimate' with ConsistencyCheck_IncorrectEstimate
\* for an estimate >= 0, 'Could not get storage metrics from server' for one
\* < 0); the failure does not end checkDataConsistency: unless the size of the
\* shard fails as well, the loop goes on with the next index.  No other step
\* records an estimator failure.
C23_EstimatorFailure ==
    [][/\ ReadLoopLeft =>
            LET f == EstimatorFailures(emitted')
                offending == performQuiescentChecks /\ OffendingEstimates # {}
            IN /\ Len(f) = IF offending THEN 1 ELSE 0
               /\ offending =>
                    /\ f[1].reason =
                         IF estimatedBytes[Lowest(OffendingEstimates)] >= 0
                         THEN "Storage servers had incorrect sampled estimate"
                         ELSE "Could not get storage metrics from server"
                    /\ ~success'
               /\ "ConsistencyCheck_IncorrectEstimate" \in Names(emitted') <=>
                    /\ offending
                    /\ estimatedBytes[Lowest(OffendingEstimates)] >= 0
       /\ EstimatorFailures(emitted') # <<>> =>
            /\ ReadLoopLeft
            /\ pc' = "shard" => i' = i + increment
            /\ pc' = "shard" <=> "ConsistencyCheck_InvalidShardSize" \notin Names(emitted')
      ]_vars

\* an estimator failure has been recorded for a shard and the loop is at its
\* head again, with a shard left to check
C23_Witness ==
    /\ pc = "shard"
    /\ i < NumShards
    /\ EstimatorFailures(emitted) # <<>>
    /\ ~success

SizeReasons ==
    {"Shard size in quiescent database is too small",
     "Shard size in quiescent database is too large"}
EstimateReason == "Shard size is more than 7 std dev from estimate"
\* canSplit once the read loop is left
CanSplitAtTheEnd(a) ==
    /\ a.canSplit
    /\ a.sampledBytes - a.splitBytes >= getShardSizeBounds(dbSize).min
    /\ a.sampledBytes > a.splitBytes

\* C24: when the read loop of a shard is left, a failure of the bounds of the
\* size ('Shard size in quiescent database is too small/large') is recorded
\* only if canSplit holds, sampledKeys > 5, the run is quiescent and the begin
\* of the shard does not start with keyServersPrefix; the failure of the
\* estimate ('more than 7 std dev') only if sampledKeys > 30; a shard of no key
\* or of one key records neither, quiescent or not.
C24_SizeFailures ==
    [][ReadLoopLeft =>
          /\ Reasons(emitted') \cap SizeReasons # {} =>
                /\ CanSplitAtTheEnd(SampledAcc)
                /\ SampledAcc.sampledKeys > 5
                /\ performQuiescentChecks
                /\ ~startsWithKeyServersPrefix(range.begin)
          /\ EstimateReason \in Reasons(emitted') => SampledAcc.sampledKeys > 30
          /\ SampledAcc.shardKeys <= 1 =>
                Reasons(emitted') \cap (SizeReasons \cup {EstimateReason}) = {}]_vars

\* a shard has failed both for its estimate and for its bounds
C24_Witness ==
    /\ pc = "finished"
    /\ ~success
    /\ EstimateReason \in Reasons(emitted)
    /\ Reasons(emitted) \cap SizeReasons # {}

\* the replies of a page have been compared and sampled without a failure
ComparedAndSampled ==
    /\ pc = "waitKeyValues"
    /\ waitForAll(keyValueFutures)
    /\ success' = success
    /\ acc' = SampledAcc
    /\ UNCHANGED <<i, begin, keyValueFutures>>

\* C25: the read loop waits for getAllowance only when rateLimit > 0, and then
\* once for each page whose replies were compared and sampled: the wait is
\* entered by the step that compared and sampled the replies, a page with a
\* rate limit never goes on without it, and the wait is left for the request
\* of the next page, for the end of the read loop or for a thrown error.
C25_RateLimit ==
    [][/\ pc' = "getAllowance" /\ pc # "getAllowance" => rateLimit > 0 /\ ComparedAndSampled
       /\ pc = "waitKeyValues" /\ rateLimit > 0 /\ pc' # pc =>
             \/ pc' = "getAllowance"
             \/ pc' = "finished" /\ ~success' /\ Names(emitted') \cap ComparisonEvents # {}
       /\ pc = "getAllowance" =>
             /\ pc' \in {"getVersionOfKeyValues", "shard", "finished", "catch"}
             /\ pc' = "getVersionOfKeyValues" => i' = i /\ begin' # begin]_vars

\* a client with a rate limit waits for the allowance of the second page of a shard
C25_Witness ==
    /\ pc = "getAllowance"
    /\ rateLimit > 0
    /\ begin > keyLocations[i + 1].key

\* every replica of the destination team of a shard that is being moved has
\* answered or failed, in a run that is not quiescent; one is absent and the
\* others agree
OneAbsentOfRelocating ==
    /\ pc = "waitKeyValues"
    /\ waitForAll(keyValueFutures)
    /\ isRelocating
    /\ ~performQuiescentChecks
    /\ Cardinality(AbsentReplies(keyValueFutures)) = 1
    /\ DifferingReplies(keyValueFutures) = {}

\* C26 as stated: the comparison of such a page emits the event of the
\* unreachable replica and records no failure.
C26_Original ==
    [][OneAbsentOfRelocating =>
          /\ "ConsistencyCheck_StorageServerUnavailable" \in Names(emitted')
          /\ success' = success]_vars

\* C26: the comparison of such a page emits no event at all and records no
\* failure: the absent reply is passed over, the rows of the first present
\* reply are sampled and the read loop goes on (to its rate limit, its next
\* page, the next shard or a failed ASSERT of the cursor).
C26_AbsentOfRelocating ==
    [][OneAbsentOfRelocating =>
          /\ emitted' = <<>>
          /\ success' = success
          /\ \/ pc' \in {"getAllowance", "getVersionOfKeyValues"} /\ acc' = SampledAcc
             \/ pc' = "shard"
             \/ pc' = "catch" /\ err' = "internal_error"]_vars

\* the page of a shard that is being moved is to be compared with one reply absent
C26_Witness == OneAbsentOfRelocating /\ PresentReplies(keyValueFutures) # {}

\* the rows of the shard, and the sample of the very first of them
RowsOfShard == SelectSeq(DataRows, LAMBDA kv : range.begin <= kv.key /\ kv.key < range.end)
SampleOfFirstKey ==
    IF RowsOfShard # <<>> /\ isKeyValueInSample(RowsOfShard[1]).inSample
    THEN isKeyValueInSample(RowsOfShard[1]).sampledSize
    ELSE 0

\* C30: when the read loop of a shard is left, firstKeySampledBytes is the
\* sampled size of the very first key of the shard if that key is in the
\* sample and 0 otherwise, in however many pages the rows of the shard were
\* read.
C30_FirstKeySampledBytes ==
    [][ReadLoopLeft /\ SampledAcc.shardKeys = Len(RowsOfShard) =>
          SampledAcc.firstKeySampledBytes = SampleOfFirstKey]_vars

----------------------------------------------------------------------------
(* runCheck: the quiescent checks *)

\* the step that follows each of the quiescent checks in runCheck
AfterQuiescentCheck ==
    [p \in QuiescentWaits |->
        CASE p = "checkForUndesirableServers" -> "getDataDistributionQueueSize"
          [] p = "getDataDistributionQueueSize" -> "getMaxTLogQueueSize"
          [] p = "getMaxTLogQueueSize" -> "getMaxStorageServerQueueSize"
          [] p = "getMaxStorageServerQueueSize" -> "checkForStorage"
          [] p = "checkForStorage" -> "checkForExtraDataStores"
          [] p = "checkForExtraDataStores" -> "checkUsingDesiredClasses"
          [] p = "checkUsingDesiredClasses" -> "checkWorkerList"
          [] p = "checkWorkerList" -> "getKeyServers"]

\* C27: the quiescent checks of the first client are independent: whatever
\* failure a check or a check before it has recorded, a check that throws
\* nothing is followed by the next check, and the last one by getKeyServers;
\* getKeyServers and getKeyLocations end the iteration only in a step that
\* records a failure of their own, whatever was recorded before, and are
\* followed by getKeyLocations and checkDataConsistency otherwise.
C27_IndependentChecks ==
    [][/\ pc \in QuiescentWaits =>
             /\ firstClient /\ performQuiescentChecks
             /\ \/ pc' = AfterQuiescentCheck[pc]
                \/ pc' = "catch" /\ err' # "none" /\ success' = success
       /\ pc \in KeyServersWaits \cup KeyLocationsWaits =>
             \/ pc' \in KeyServersWaits \cup KeyLocationsWaits \cup {"checkDataConsistency"}
             \/ pc' = "finished" /\ Failures(emitted') # <<>>
             \/ pc' = "catch" /\ err' # "none"]_vars

\* the last quiescent check has recorded a failure and getKeyServers is to run
C27_Witness ==
    /\ pc = "getKeyServers"
    /\ firstClient /\ performQuiescentChecks
    /\ "Worker list incorrect" \in Reasons(emitted)
    /\ ~success

----------------------------------------------------------------------------
(* The catch of a page of getKeyLocations and of checkDataConsistency *)

RetryOf(name) == <<[name |-> name, reason |-> ""]>>

\* C29: a page attempt of getKeyLocations or of the read loop of
\* checkDataConsistency that throws transaction_too_old or future_version is
\* taken again from getVersion: the cursor and keyLocations (the accumulators
\* of the shard) are as they were, no failure is recorded and the retry event
\* alone is emitted.  Any other error goes to the catch of runCheck, and the
\* page is not taken again.
C29_RetryOfVersionErrors ==
    [][/\ pc = "getVersionOfKeyLocations" =>
             \/ pc' = "waitKeyLocations"
             \/ /\ pc' = "getVersionOfKeyLocations"
                /\ emitted' = RetryOf("ConsistencyCheck_RetryGetKeyLocations")
                /\ UNCHANGED <<beginKey, keyLocations, success, err>>
             \/ pc' = "catch" /\ err' \in Thrown \ VersionErrors /\ success' = success
       /\ pc = "getVersionOfKeyValues" =>
             \/ pc' = "waitKeyValues"
             \/ /\ pc' = "getVersionOfKeyValues"
                /\ emitted' = RetryOf("ConsistencyCheck_RetryDataConsistency")
                /\ UNCHANGED <<i, begin, keyLocations, acc, success, err>>
             \/ pc' = "catch" /\ err' \in Thrown \ VersionErrors /\ success' = success
       /\ \A e \in Thrown \ VersionErrors :
             ThrowInKeyLocations(e) \/ ThrowInDataConsistency(e) =>
                 pc' = "catch" /\ err' = e /\ emitted' = <<>>]_vars

\* the second page of a shard is taken again after a version error
C29_Witness ==
    /\ pc = "getVersionOfKeyValues"
    /\ emitted = RetryOf("ConsistencyCheck_RetryDataConsistency")
    /\ begin > range.begin
    /\ acc.shardKeys > 0

----------------------------------------------------------------------------
(* checkForExtraDataStores *)

\* the workers that are asked for their stores: those before the first one
\* that cannot be reached, or all of them
AskedWorkers(replies) ==
    {k \in DOMAIN replies : \A j \in 1..k : ~replies[j].error}
\* the extra stores of worker k: the stores whose id is not the id of a storage
\* server or of a present log at the address of the worker
ExtraStores(replies, k) ==
    {j \in DOMAIN replies[k].stores : replies[k].stores[j] \notin statefulProcesses[k]}
RECURSIVE NumExtraStores(_, _)
NumExtraStores(replies, workers) ==
    IF workers = {}
    THEN 0
    ELSE LET k == Lowest(workers)
         IN Cardinality(ExtraStores(replies, k)) + NumExtraStores(replies, workers \ {k})
FailuresOf(evs, reason) == SelectSeq(evs, LAMBDA e : e.name = "TestFailure" /\ e.reason = reason)

\* C28: checkForExtraDataStores reports a store of a worker as extra exactly
\* when its id is registered neither as a storage server nor as a present log
\* at the address of that worker; it asks every worker, also after an extra
\* store; it records 'Extra data stores present on workers' once, however many
\* extra stores there are, and returns false; in simulation it reboots one
\* process for each extra store.  A worker that cannot be reached records
\* 'Failed to get data stores' and ends the check at once, whatever was found
\* before.
C28_ExtraDataStores ==
    [][\A r1 \in DiskStoreReplies, r2 \in DiskStoreReplies :
          CheckForExtraDataStores(<<r1, r2>>) =>
              LET replies == <<r1, r2>>
                  asked == AskedWorkers(replies)
                  extras == NumExtraStores(replies, asked)
                  unreachable == asked # DOMAIN replies
              IN /\ Len(EventsNamed(emitted', "ConsistencyCheck_ExtraDataStore")) = extras
                 /\ Len(EventsNamed(emitted', "ConsistencyCheck_RebootProcess")) =
                        (IF isSimulated THEN extras ELSE 0)
                 /\ Len(FailuresOf(emitted', "Extra data stores present on workers")) =
                        (IF ~unreachable /\ extras > 0 THEN 1 ELSE 0)
                 /\ Len(FailuresOf(emitted', "Failed to get data stores")) =
                        (IF unreachable THEN 1 ELSE 0)
                 /\ Len(EventsNamed(emitted', "ConsistencyCheck_GetDataStoreFailure")) =
                        (IF unreachable THEN 1 ELSE 0)
                 /\ unreachable =>
                        emitted'[Len(emitted')].reason = "Failed to get data stores"
                 /\ Len(Failures(emitted')) = (IF unreachable \/ extras > 0 THEN 1 ELSE 0)
                 /\ success' = (success /\ ~unreachable /\ extras = 0)
                 /\ checkForExtraDataStores(Sink, replies).result = (~unreachable /\ extras = 0)
      ]_vars

\* both workers hold an extra store: two reboots and one failure
C28_Witness ==
    /\ pc = "checkUsingDesiredClasses"
    /\ Len(EventsNamed(emitted, "ConsistencyCheck_ExtraDataStore")) = 2
    /\ Len(EventsNamed(emitted, "ConsistencyCheck_RebootProcess")) = 2
    /\ Len(FailuresOf(emitted, "Extra data stores present on workers")) = 1
    /\ ~success

----------------------------------------------------------------------------
(* The clients of a run *)

\* the state of client c: of its workload object and of its actors
StateOf(c) == IF c = clientId THEN ClientState ELSE suspended[c]

----------------------------------------------------------------------------
(* The accumulators of a shard *)

RECURSIVE SumOfRows(_, _)
\* over the rows: the sum of the sizes, the sum of the sampled sizes of the
\* rows of the sample, or the number of the rows of the sample
SumOfRows(rows, what) ==
    IF rows = <<>>
    THEN 0
    ELSE LET sampleInfo == isKeyValueInSample(Head(rows))
         IN (CASE what = "size" -> sampleInfo.size
               [] what = "sampledSize" -> IF sampleInfo.inSample THEN sampleInfo.sampledSize ELSE 0
               [] what = "sampledKeys" -> IF sampleInfo.inSample THEN 1 ELSE 0)
            + SumOfRows(Tail(rows), what)
\* the rows of the reference reply of the page: of the first reply that is there
ReferenceRows ==
    IF PresentReplies(keyValueFutures) = {}
    THEN <<>>
    ELSE keyValueFutures[Lowest(PresentReplies(keyValueFutures))].data
Counters(a) == <<a.shardBytes, a.sampledBytes, a.shardKeys, a.sampledKeys>>
ReadLoopWaits == {"getVersionOfKeyValues", "waitKeyValues", "getAllowance"}

\* C31: the counters of a shard whose data are compared are the sums over the
\* reference replies of its pages, each page once: they are 0 when the read
\* loop of the shard is entered; the step that compares a page adds the sum of
\* the sizes of the rows of its reference reply to shardBytes, the sum of the
\* sampled sizes of those that are in the sample to sampledBytes, the number
\* of the rows to shardKeys and the number of those in the sample to
\* sampledKeys; no other step of the read loop, the retry of a page after an
\* error least of all, changes them.
C31_Counters ==
    [][/\ pc' = "getVersionOfKeyValues" /\ pc \notin ReadLoopWaits =>
             Counters(acc') = <<0, 0, 0, 0>>
       /\ pc = "waitKeyValues" /\ waitForAll(keyValueFutures) /\ pc' \in ReadLoopWaits =>
             Counters(acc') =
                 <<acc.shardBytes + SumOfRows(ReferenceRows, "size"),
                   acc.sampledBytes + SumOfRows(ReferenceRows, "sampledSize"),
                   acc.shardKeys + Len(ReferenceRows),
                   acc.sampledKeys + SumOfRows(ReferenceRows, "sampledKeys")>>
       /\ /\ pc \in ReadLoopWaits /\ pc' \in ReadLoopWaits
          /\ ~(pc = "waitKeyValues" /\ waitForAll(keyValueFutures))
          => Counters(acc') = Counters(acc)
       /\ ReadLoopLeft /\ pc = "waitKeyValues" =>
             Counters(SampledAcc) =
                 <<acc.shardBytes + SumOfRows(ReferenceRows, "size"),
                   acc.sampledBytes + SumOfRows(ReferenceRows, "sampledSize"),
                   acc.shardKeys + Len(ReferenceRows),
                   acc.sampledKeys + SumOfRows(ReferenceRows, "sampledKeys")>>]_vars

\* the rows of a shard that holds more rows than a page have all been
\* counted, each once
C31_Witness ==
    /\ pc = "getAllowance"
    /\ begin > range.begin
    /\ Counters(acc) = <<Len(RowsOfShard), SumOfRows(RowsOfShard, "sampledSize"),
                         Len(RowsOfShard), SumOfRows(RowsOfShard, "sampledKeys")>>
    /\ acc.shardKeys > DataPageLimit

----------------------------------------------------------------------------
(* The rate limit of the read loop *)

\* C32 as stated: the bytes that the rate limiter is asked for after a page
\* are the bytes of the reference reply of the page, however many replicas
\* have answered.
C32_Original ==
    pc = "getAllowance" => totalReadAmount = expectedSize(ReferenceRows)

\* C32: the bytes that the rate limiter is asked for after a page are the
\* bytes of every reply of the page that is there: the bytes of the reference
\* reply times the number of the replicas that have answered.
C32_TotalReadAmount ==
    pc = "getAllowance" =>
        totalReadAmount =
            Cardinality(PresentReplies(keyValueFutures)) * expectedSize(ReferenceRows)

\* the allowance of a page with rows that two replicas of three have answered
C32_Witness ==
    /\ pc = "getAllowance"
    /\ Cardinality(PresentReplies(keyValueFutures)) = 2
    /\ AbsentReplies(keyValueFutures) # {}
    /\ expectedSize(ReferenceRows) > 1


\* ---------------------------------------------------------------------------
\* C33
\* ---------------------------------------------------------------------------

KeysOfRows(rows) == {rows[k].key : k \in DOMAIN rows}

ValueOf(rows, key) == rows[CHOOSE k \in DOMAIN rows : rows[k].key = key].value

\* the last key of a set in key order, -1 (the empty key) when there is none
LastKey(keys) == IF keys = {} THEN -1 ELSE CHOOSE k \in keys : \A l \in keys : l <= k

\* the counters and keys of two replies, by the sets of their keys
DiffOf(current, reference) ==
    LET both == KeysOfRows(current) \cap KeysOfRows(reference)
        equal == {k \in both : ValueOf(current, k) = ValueOf(reference, k)}
        onlyCurrent == KeysOfRows(current) \ KeysOfRows(reference)
        onlyReference == KeysOfRows(reference) \ KeysOfRows(current)
    IN [currentUniques |-> Cardinality(onlyCurrent),
        referenceUniques |-> Cardinality(onlyReference),
        valueMismatches |-> Cardinality(both \ equal),
        matchingKVPairs |-> Cardinality(equal),
        currentUniqueKey |-> LastKey(onlyCurrent),
        referenceUniqueKey |-> LastKey(onlyReference),
        valueMismatchKey |-> LastKey(both \ equal)]

\* C33: when the first reply that differs from the reference is compared, the
\* one ConsistencyCheck_DataInconsistent event carries the counters of the
\* alignment diff: the keys of both replies with equal values, the keys of
\* both with different values, the keys of the current reply alone and those
\* of the reference alone, each remembered key being the last such key in key
\* order; the counters add up to the lengths of the two replies.
C33_AlignmentDiff ==
    [][(pc = "waitKeyValues" /\ DifferingReplies(keyValueFutures) # {})
       => LET current == keyValueFutures[Lowest(DifferingReplies(keyValueFutures))].data
              reference == keyValueFutures[Lowest(PresentReplies(keyValueFutures))].data
              events == EventsNamed(emitted', "ConsistencyCheck_DataInconsistent")
          IN /\ Len(events) = 1
             /\ events[1].detail = DiffOf(current, reference)
             /\ LET d == events[1].detail
                IN /\ d.matchingKVPairs + d.valueMismatches + d.currentUniques = Len(current)
                   /\ d.matchingKVPairs + d.valueMismatches + d.referenceUniques
                         = Len(reference)]_vars

\* one key with two values was compared: one value mismatch, no matching pair
C33_Witness ==
    /\ pc = "finished"
    /\ ~success
    /\ \E k \in DOMAIN emitted :
          /\ emitted[k].name = "ConsistencyCheck_DataInconsistent"
          /\ emitted[k].detail.valueMismatches = 1
          /\ emitted[k].detail.matchingKVPairs = 0
          /\ emitted[k].detail.currentUniques = 0
          /\ emitted[k].detail.referenceUniques = 0
          /\ emitted[k].detail.valueMismatchKey # -1


\* ---------------------------------------------------------------------------
\* C34
\* ---------------------------------------------------------------------------

\* the step of checkForUndesirableServers
UndesirableChecked == pc = "checkForUndesirableServers" /\ pc' = "getDataDistributionQueueSize"

\* the step that catches attribute_not_found from the read of the queue size
QueueSizeNotFound ==
    /\ pc = "getMaxStorageServerQueueSize"
    /\ EventsNamed(emitted', "ConsistencyCheck_StorageQueueSizeError") # <<>>

\* the failures of a wrong store type or of two servers at one address
UndesirableFailures(evs) ==
    FailuresOf(evs, "Storage server has wrong key-value store type")
        \o FailuresOf(evs, "Multiple storage servers have the same address")

\* C34 as stated: the failure of the read of the queue size is suppressed if
\* and only if the check for undesirable servers recorded a failure, an
\* unreachable storage server included.
C34_Original ==
    [][/\ UndesirableChecked => (hasUndesirableServers' <=> Failures(emitted') # <<>>)
       /\ QueueSizeNotFound =>
             (FailuresOf(emitted', "Could not read storage queue size") = <<>>
                 <=> hasUndesirableServers)]_vars

\* C34: an attribute_not_found from the read of the storage queue size is
\* caught: the check goes on, and 'Could not read storage queue size' is
\* suppressed if and only if checkForUndesirableServers returned true, which it
\* does exactly when it recorded a wrong store type or two servers at one
\* address; a check that recorded only 'Storage server unavailable' returned
\* false, so the failure of the read is recorded. Any other error of the read
\* reaches the catch of runCheck.
C34_QueueSizeNotFound ==
    [][/\ UndesirableChecked =>
             /\ hasUndesirableServers' <=> UndesirableFailures(emitted') # <<>>
             /\ Len(UndesirableFailures(emitted')) <= 1
             /\ Reasons(emitted') \subseteq
                    {"Storage server unavailable",
                     "Storage server has wrong key-value store type",
                     "Multiple storage servers have the same address"}
       /\ QueueSizeNotFound =>
             /\ pc' = "checkForStorage"
             /\ err' = "none"
             /\ hasUndesirableServers' = hasUndesirableServers
             /\ Len(emitted') = (IF hasUndesirableServers THEN 1 ELSE 2)
             /\ FailuresOf(emitted', "Could not read storage queue size") = <<>>
                   <=> hasUndesirableServers
             /\ success' = (success /\ hasUndesirableServers)
       /\ (pc = "getMaxStorageServerQueueSize" /\ pc' = "catch") =>
             /\ err' \in Thrown \ {"attribute_not_found"}
             /\ success' = success]_vars

\* the read of the queue size failed after undesirable servers were found:
\* the event alone, no failure
C34_Witness ==
    /\ pc = "checkForStorage"
    /\ hasUndesirableServers
    /\ Names(emitted) = {"ConsistencyCheck_StorageQueueSizeError"}


\* ---------------------------------------------------------------------------
\* C35
\* ---------------------------------------------------------------------------

ClassTypesOf(workers) == {workers[k].classType : k \in DOMAIN workers}

\* no class of the workers that are not excluded can host the master, a class
\* of the full pool can, and the master runs on an excluded worker
MasterOnExcludedWorker(cluster) ==
    LET nonExcludedWorkers == SelectSeq(cluster.workers, LAMBDA w : ~w.excluded)
    IN /\ getBestAvailableFitness(ClassTypesOf(nonExcludedWorkers), "Master") = "NeverAssign"
       /\ getBestAvailableFitness(ClassTypesOf(cluster.workers), "Master") # "NeverAssign"
       /\ \E k \in DOMAIN cluster.workers :
             /\ cluster.workers[k].address = cluster.master
             /\ cluster.workers[k].excluded

\* C35: when no class of the non-excluded workers can host the master and a
\* class of the full pool can, a master that runs on an excluded worker passes
\* the check of the master: checkUsingDesiredClasses emits no
\* ConsistencyCheck_MasterNotBest.
C35_MasterOnExcludedWorker ==
    [][pc = "checkUsingDesiredClasses"
       => \A cluster \in Clusters :
             (CheckUsingDesiredClasses(cluster) /\ MasterOnExcludedWorker(cluster))
                => EventsNamed(emitted', "ConsistencyCheck_MasterNotBest") = <<>>]_vars


\* ---------------------------------------------------------------------------
\* C36
\* ---------------------------------------------------------------------------

\* the replies that the comparison reports with the id of storageServers[j]:
\* a reply that differs from the reference, an absent reply of a shard that is
\* not relocating
ReportedReplies(futures) ==
    DifferingReplies(futures) \cup (IF isRelocating THEN {} ELSE AbsentReplies(futures))

\* C36: whenever checkDataConsistency reads estimatedBytes[j],
\* storageServerInterfaces[j] or storageServers[j], position j exists in the
\* list and the three lists name the same replica at j: when the first client
\* of a distributed run adds the estimates to the sizes of the team's members,
\* there is one estimate and one interface for each member, in the order of
\* the team, and the first reply that the comparison reports belongs to the
\* member of the team at its position.
C36_ReplicaPositions ==
    [][/\ (/\ pc = "getStorageSizeEstimate"
           /\ firstClient /\ distributed
           /\ ~(performQuiescentChecks /\ estimatedBytes' = <<>>))
          => /\ Len(estimatedBytes') = Len(storageServers)
             /\ storageServerInterfaces = storageServers
       /\ (/\ pc = "waitKeyValues" /\ waitForAll(keyValueFutures)
           /\ ReportedReplies(keyValueFutures) # {})
          => LET j == Lowest(ReportedReplies(keyValueFutures))
             IN /\ j \in DOMAIN storageServers
                /\ storageServerInterfaces[j] = storageServers[j]]_vars


\* ---------------------------------------------------------------------------
\* C37
\* ---------------------------------------------------------------------------

\* a page attempt of getKeyLocations is over without failure or error
KeyLocationsPageDone ==
    /\ pc = "waitKeyLocations"
    /\ pc' \in {"getVersionOfKeyLocations", "checkDataConsistency"}

\* the read loop of checkDataConsistency goes on to the next page
NextPageOfKeyValues ==
    /\ pc = "waitKeyValues"
    /\ pc' = "getVersionOfKeyValues"

\* C37: with storage servers that reply with their rows or not at all, every
\* page attempt of getKeyLocations that is over without failure or error has
\* increased beginKey, and getKeyLocations is left for the shards with
\* beginKey >= endKey; every page of the read loop whose reference reply has
\* more has increased begin, and no assertion fails; both loops end after
\* finitely many pages.
C37_PaginationMakesProgress ==
    /\ [][/\ KeyLocationsPageDone => (beginKey' > beginKey /\ beginKey' <= keyServersKeysEnd)
          /\ (KeyLocationsPageDone /\ pc' = "checkDataConsistency") => beginKey' >= endKey
          /\ NextPageOfKeyValues =>
                /\ keyValueFutures[firstValidServerOf(keyValueFutures)].more
                /\ begin' > begin
                /\ begin' <= range.end
          /\ (/\ pc = "waitKeyValues" /\ waitForAll(keyValueFutures)
              /\ firstValidServerOf(keyValueFutures) >= 0
              /\ keyValueFutures[firstValidServerOf(keyValueFutures)].more
              /\ ReadKeyValueReplies([st |-> Sink, firstValidServer |-> -1, outcome |-> "read"],
                                     keyValueFutures, 1).outcome = "read")
                => NextPageOfKeyValues
          /\ err' # "internal_error"]_vars
    /\ <>(pc \in {"finished", "catch"})

\* the key locations were read to the end and a second page of a shard is
\* about to be read
C37_Witness ==
    /\ pc = "getVersionOfKeyValues"
    /\ beginKey >= endKey
    /\ Len(keyLocations) > KrmLimit
    /\ begin > range.begin
    /\ acc.shardKeys = DataPageLimit


\* ---------------------------------------------------------------------------
\* C38
\* ---------------------------------------------------------------------------

\* every replica of the page was asked, none has replied, and the absence is
\* tolerated: the run is not quiescent or the shard is relocating
NoReplyTolerated ==
    /\ pc \in {"waitKeyValues", "getAllowance"}
    /\ keyValueFutures # <<>>
    /\ waitForAll(keyValueFutures)
    /\ PresentReplies(keyValueFutures) = {}
    /\ ~performQuiescentChecks \/ isRelocating

\* the events of the absent replies: one for each when the shard is not relocating
UnavailableEvents ==
    IF isRelocating
    THEN <<>>
    ELSE [j \in DOMAIN keyValueFutures |->
             [name |-> "ConsistencyCheck_StorageServerUnavailable", reason |-> ""]]

\* C38: when no replica replies for a page and the absence is tolerated, the
\* comparison records no failure and samples nothing; the read loop of the
\* shard ends (after the rate limiter, if there is one): the page is not asked
\* for again, begin is not advanced, and the size checks of the shard are
\* evaluated on what was accumulated before the page.  The client goes on
\* with the next shard unless a size check returns false; in a run that is not
\* quiescent no failure is recorded at all.
C38_NoReplyEndsTheReadLoop ==
    [][NoReplyTolerated =>
          IF pc = "waitKeyValues" /\ rateLimit > 0
          THEN /\ pc' = "getAllowance"
               /\ emitted' = UnavailableEvents
               /\ acc' = acc
               /\ success' = success
               /\ begin' = begin
          ELSE LET c == CheckShardSize(
                            [success |-> success,
                             events |-> IF pc = "waitKeyValues" THEN UnavailableEvents
                                                                 ELSE <<>>],
                            acc, estimatedBytes, getShardSizeBounds(dbSize), range.begin)
               IN /\ pc' = (IF c.outcome = "false" THEN "finished" ELSE "shard")
                  /\ emitted' = c.st.events
                  /\ success' = c.st.success
                  /\ Reasons(emitted') \cap {"Storage server unavailable", "Data inconsistent"}
                        = {}
                  /\ pc' = "shard" => i' = i + increment
                  /\ (~performQuiescentChecks /\ acc.sampledKeys <= 30) =>
                        (Failures(emitted') = <<>> /\ success' = success /\ pc' = "shard")
      ]_vars

\* no replica of a shard that is not relocating has replied for the first page
\* and the client goes on with the next shard without a failure
C38_Witness ==
    /\ pc = "shard"
    /\ i > 0
    /\ success
    /\ Len(EventsNamed(emitted, "ConsistencyCheck_StorageServerUnavailable")) = TeamSize
    /\ Failures(emitted) = <<>>
    /\ ~performQuiescentChecks

====
